---- MODULE Spec2Model ----
(***************************************************************************)
(* tijdvorm backend: the FrameBuffer broadcast primitive, the /stream      *)
(* MJPEG generator, the generation loop with its priority chain, and the   *)
(* doorbell ingest sessions owned by the generation loop and by the Home   *)
(* Assistant webhook.                                                      *)
(*                                                                         *)
(* Every action is one run of a coroutine between two suspension points of *)
(* the asyncio event loop: asyncio runs a coroutine without preemption     *)
(* until it awaits something that is not ready.                            *)
(***************************************************************************)
EXTENDS Integers, Sequences, FiniteSets, TLC

\* ------------------------------------------------------------------ bounds
MaxPush == 2          \* pushes to the FrameBuffer in one run
NumReaders == 2       \* concurrently connected /stream clients

MaxTicks == 3         \* iterations of generation_loop in one run
MaxTasks == 2         \* doorbell_loop tasks created in one run
MaxChunk == 14        \* bytes one read of the decoder's stdout returns
MaxCamFrames == 1     \* frames the doorbell sessions push in one run

MaxRuns == 2          \* decoder processes one doorbell_loop spawns in one run
MaxRunFrames == 2     \* frames one decoder process delivers
MaxStops == 2         \* calls of _stop_doorbell in one run

Readers == 1..NumReaders
TaskIds == 1..MaxTasks

\* ------------------------------------------------------------------ bytes
\* A bytes object is a sequence of integers 0..255.  An optional value
\* (bytes | None) is a sequence of length 0 (None) or 1 (the value).
None == <<>>
Some(x) == <<x>>

SOI == <<255, 216>>
EOI == <<255, 217>>

\* A JPEG with the given payload between its start and end markers.
Jpeg(payload) == SOI \o payload \o EOI

\* The frames the abstract publisher of the hub specifications pushes:
\* lengths 0, 5 and 12 (Content-Length of one and of two digits).
HubFrames == { <<>>, Jpeg(<<1>>), Jpeg(<<2, 2, 2, 2, 2, 2, 2, 2>>) }

VARIABLES
    current_frame,   \* FrameBuffer.current_frame : bytes | None
    frame_count,     \* FrameBuffer._frame_count
    cond_locked,     \* the lock of FrameBuffer._condition is held
    pc,              \* per reader: "off" (not connected), "idle" (about to call
                     \*   wait_for_frame), "waiting" (suspended in Condition.wait),
                     \*   "woken" (notified, not yet run), "yielded" (its chunk is
                     \*   being written to the client)
    last_count,      \* per reader: _mjpeg_generator's last_count
    ret,             \* per reader: what wait_for_frame last returned, and the
                     \*   last_count it was called with (history)
    part,            \* per reader: the multipart chunk last yielded
    conn_count,      \* per reader: frame_count when the client connected (history)
    n_pushes,        \* number of push_frame calls made (history)
    last_pushed      \* argument of the latest push_frame call (history)

VARIABLES
    gpc,             \* generation_loop: "start" (not yet run), "loop", "dead"
                     \*   (left by an exception) or "cancelled"
    tf_base,         \* generator._tf_base : TimeformBase | None
    was_idle,        \* generation_loop's locals ...
    last_gen_time,
    last_second,
    db_task,         \* a task id, 0 for None
    db_stop,         \* the task id whose stop event it is, 0 for None
    prev_db_active,
    prev_override,
    prev_sauna_on,
    hook_task,       \* webhooks._doorbell_task : a task id, 0 for None
    hook_stop,       \* webhooks._doorbell_stop : a task id, 0 for None
    tasks,           \* per task id: the doorbell_loop task and its stop event
    clock,           \* time.time(), in whole seconds
    nticks,          \* iterations of generation_loop made (history)
    ncam,            \* frames pushed by doorbell sessions (history)
    live_meta,       \* "type" last written to the live preview state
    gen,             \* the _generate_frame call of the latest iteration, None
                     \*   when that iteration made none (history)
    branch,          \* what the latest iteration did: "camera" (sleep and
                     \*   continue), "regen" (_generate_frame), "base"
                     \*   (generate_base alone), "tick" (recomposite) (history)
    last_chain,      \* the time of the latest _generate_frame call, None
                     \*   before the first one (history)
    cancel_at,       \* where generation_loop was suspended when gen_task.cancel()
                     \*   was called: "none" (not called), "poll", "generate",
                     \*   "sleep", "stop" (in _stop_doorbell) (history)
    sec_hist         \* the recomposite path: the seconds it pushed a frame for,
                     \*   and how often it found the second unchanged (history)

schedVars == <<gpc, tf_base, was_idle, last_gen_time, last_second, db_task, db_stop,
               prev_db_active, prev_override, prev_sauna_on, hook_task, hook_stop,
               tasks, clock, nticks, ncam, live_meta, gen, branch, last_chain, cancel_at,
                   sec_hist>>

\* _pipe_reader of one doorbell session, reading the decoder's stdout
VARIABLES
    p_in,            \* the bytes the decoder has still to deliver
    p_pc,            \* "off" (no reader), "reading", "done" (read returned b"")
    p_buf,           \* buf
    p_latest,        \* state["latest"] : bytes | None
    p_received,      \* state["received"]
    p_frames,        \* every value assigned to state["latest"], in order (history)
    p_stream         \* all the bytes of the stream (history)

pipeVars == <<p_in, p_pc, p_buf, p_latest, p_received, p_frames, p_stream>>

\* One call of a Home Assistant check of integrations/home_assistant.py
VARIABLES
    ha_conf,         \* which of HA_BASE_URL, HA_TOKEN and _client are set
    ha_check,        \* "none", "tv" (is_tv_active) or "doorbell" (is_doorbell_active)
    ha_fetch,        \* what the request of the call did
    ha_ret           \* what the call gave: a value, or an exception

haVars == <<ha_conf, ha_check, ha_fetch, ha_ret>>

\* The easter egg images (modules/easter_eggs.py) with the cache of
\* ha_explicit_allowed (integrations/home_assistant.py)
VARIABLES
    ha_cache,        \* _ha_cache: [value : None | Some(bool), ts]
    eg_now,          \* time.time(), in seconds
    eg_calls,        \* calls of get_random_egg so far
    eg_dir,          \* EASTER_EGGS_DIR: None (no directory) or the names in it
    eg_manifest,     \* the manifest file: [kind, images], images in file order
    eg_ret           \* the last get_random_egg() on these files and this
                     \*   manifest: what it returned and what the gate said

eggVars == <<ha_cache, eg_now, eg_calls, eg_dir, eg_manifest, eg_ret>>

\* One doorbell_loop task (modules/doorbell.py) with its decoder process, its
\* two stages, and the caller of _stop_doorbell
VARIABLES
    dl_pc,           \* doorbell_loop: "unborn" (no task), "start" (created, not
                     \*   yet run), "await_reader", "killing" (in the finally,
                     \*   awaiting process.wait()), "backoff" (sleep(2.0)),
                     \*   "done" (returned), "cancelled"
    cancelling,      \* a CancelledError is passing through the finally
    stop_set,        \* stop_event.is_set()
    has_task,        \* the owner holds a task (not None)
    has_event,       \* the owner holds a stop event (not None)
    process,         \* "none", "alive", "eof" (stdout closed, not exited),
                     \*   "exited" (returncode set), "killed"
    reader_task,     \* "none", "ready" (not yet run), "reading" (suspended in
                     \*   read), "done", "failed" (read raised), "cancelled"
    compose_task,    \* "none", "ready" (sleeping), "composing" (awaiting the
                     \*   executor and push_frame), "done", "failed" (compose
                     \*   raised), "cancelled"
    latest,          \* state["latest"] : a frame <<run, number>> | None
    received,        \* state["received"]
    last_raw,        \* _compose_loop's last_raw
    raw,             \* the frame being composed
    pushed,          \* _compose_loop's pushed
    runs,            \* create_subprocess_exec calls made
    out,             \* frames the current process has delivered
    stopper,         \* _stop_doorbell: "idle" (not running), "waiting" (in
                     \*   wait_for), "cancel_wait" (timed out, the task is
                     \*   cancelled and awaited)
    stop_by,         \* which _stop_doorbell is waiting: "sched", "hook", "none"
    stop_calls,      \* calls of _stop_doorbell made (history)
    timeouts,        \* wait_for timeouts of the current call (history)
    cam,             \* the latest push of _compose_loop: the frame and the
                     \*   number of the decoder running then (history)
    sess_pushed,     \* frames _compose_loop pushed in the session (history)
    sess_received    \* frames written to state["latest"] in the session (history)

dlVars == <<dl_pc, cancelling, stop_set, has_task, has_event, process, reader_task,
            compose_task, latest, received, last_raw, raw, pushed, runs, out,
            stopper, stop_by, stop_calls, timeouts, cam, sess_pushed, sess_received>>

\* The variables of the parts that the hub and the generation loop leave alone.
auxVars == <<pipeVars, haVars, eggVars, dlVars>>

hubVars == <<current_frame, frame_count, cond_locked, pc, last_count, ret, part,
             conn_count, n_pushes, last_pushed>>

\* ------------------------------------------------------------------ FrameBuffer

\* push_frame's counter update.
NextCountSame(n) == n

NextCount(n) == n + 1

\* notify(1): only one of the suspended readers is woken.
NotifyOne(p) ==
    IF \E r \in DOMAIN p : p[r] = "waiting"
    THEN LET r0 == CHOOSE r \in DOMAIN p : p[r] = "waiting"
         IN  [p EXCEPT ![r0] = "woken"]
    ELSE p

\* Condition.notify_all(): the future of every suspended waiter is resolved.
NotifyAll(p) == [r \in DOMAIN p |-> IF p[r] = "waiting" THEN "woken" ELSE p[r]]

\* A wait that keeps the lock while suspended.
WaitKeepsLock == TRUE

\* Condition.wait() releases the lock before it suspends.
LockWhileWaiting == FALSE

\* The loop condition without the count comparison.
WaitMustBlockNoCount(cf, fc, last) == cf = None

\* wait_for_frame's loop condition.
WaitMustBlock(cf, fc, last) == fc = last \/ cf = None

\* The frame stored by a push that forgets to store it.
StoredFrameStale(cf, b) == cf

\* The frame stored by push_frame.
StoredFrame(cf, b) == Some(b)

\* push_frame: under the condition's lock store the frame, count, wake all.
FbPush(b) ==
    /\ ~cond_locked
    /\ current_frame' = StoredFrame(current_frame, b)
    /\ frame_count' = NextCount(frame_count)
    /\ pc' = NotifyAll(pc)
    /\ cond_locked' = FALSE
    /\ n_pushes' = n_pushes + 1
    /\ last_pushed' = Some(b)

\* No push_frame call.
FbSame == UNCHANGED <<current_frame, frame_count, pc, cond_locked, n_pushes, last_pushed>>

\* push_frame called by an arbitrary publisher.
PushFrame(b) ==
    /\ n_pushes < MaxPush
    /\ FbPush(b)
    /\ UNCHANGED <<last_count, ret, part, conn_count>>
    /\ UNCHANGED schedVars
    /\ UNCHANGED auxVars

\* ------------------------------------------------------------------ /stream

Boundary == <<102, 114, 97, 109, 101>>
CRLF == <<13, 10>>
HdrType == <<67, 111, 110, 116, 101, 110, 116, 45, 84, 121, 112, 101, 58, 32,
             105, 109, 97, 103, 101, 47, 106, 112, 101, 103>> \o CRLF
HdrLength == <<67, 111, 110, 116, 101, 110, 116, 45, 76, 101, 110, 103, 116,
               104, 58, 32>>

\* str(n).encode() for n >= 0: the ASCII decimal digits, most significant first.
RECURSIVE DecStr(_)
DecStrLastDigit(n) == <<48 + (n % 10)>>

DecStr(n) == IF n < 10 THEN <<48 + n>> ELSE DecStr(n \div 10) \o <<48 + (n % 10)>>

\* The chunk _mjpeg_generator yields for one frame.
MjpegPart(jpeg) ==
    <<45, 45>> \o Boundary \o CRLF \o HdrType
    \o HdrLength \o DecStr(Len(jpeg)) \o CRLF
    \o CRLF \o jpeg \o CRLF

\* wait_for_frame from the point where the lock is held: either suspend in
\* Condition.wait() or return (current_frame, _frame_count) to the generator,
\* which stores the count and yields the chunk.
WaitStep(r) ==
    IF WaitMustBlock(current_frame, frame_count, last_count[r])
    THEN /\ pc' = [pc EXCEPT ![r] = "waiting"]
         /\ cond_locked' = LockWhileWaiting
         /\ UNCHANGED <<last_count, ret, part>>
    ELSE /\ pc' = [pc EXCEPT ![r] = "yielded"]
         /\ cond_locked' = FALSE
         /\ ret' = [ret EXCEPT ![r] = Some([bytes |-> current_frame[1],
                                            count |-> frame_count,
                                            arg |-> last_count[r]])]
         /\ last_count' = [last_count EXCEPT ![r] = frame_count]
         /\ part' = [part EXCEPT ![r] = Some(MjpegPart(current_frame[1]))]

\* A client connects: StreamingResponse starts _mjpeg_generator.
Connect(r) ==
    /\ pc[r] = "off"
    /\ pc' = [pc EXCEPT ![r] = "idle"]
    /\ last_count' = [last_count EXCEPT ![r] = -1]
    /\ conn_count' = [conn_count EXCEPT ![r] = frame_count]
    /\ UNCHANGED <<current_frame, frame_count, cond_locked, ret, part,
                   n_pushes, last_pushed>>
    /\ UNCHANGED schedVars
    /\ UNCHANGED auxVars

\* The generator calls wait_for_frame(last_count).
WaitCall(r) ==
    /\ pc[r] = "idle"
    /\ ~cond_locked
    /\ WaitStep(r)
    /\ UNCHANGED <<current_frame, frame_count, conn_count, n_pushes, last_pushed>>
    /\ UNCHANGED schedVars
    /\ UNCHANGED auxVars

\* A woken waiter runs again: Condition.wait() takes the lock back and the
\* loop condition is evaluated again.
WaitResume(r) ==
    /\ pc[r] = "woken"
    /\ ~cond_locked
    /\ WaitStep(r)
    /\ UNCHANGED <<current_frame, frame_count, conn_count, n_pushes, last_pushed>>
    /\ UNCHANGED schedVars
    /\ UNCHANGED auxVars

\* StreamingResponse has written the chunk and asks the generator for the next.
SendPart(r) ==
    /\ pc[r] = "yielded"
    /\ pc' = [pc EXCEPT ![r] = "idle"]
    /\ UNCHANGED <<current_frame, frame_count, cond_locked, last_count, ret, part,
                   conn_count, n_pushes, last_pushed>>
    /\ UNCHANGED schedVars
    /\ UNCHANGED auxVars

\* ------------------------------------------------------------------ content

UPDATE_INTERVAL_MINUTES == 1

\* interval = UPDATE_INTERVAL_MINUTES * 60, in seconds.
Interval == UPDATE_INTERVAL_MINUTES * 60

\* Images, as the payload their JPEG encoding carries.
BlackImg == <<0>>
OverrideImg(path) == <<1, path>>
EggImg == <<2>>
SaunaImg == <<3>>
CamImg == <<5>>

\* time.strftime("%H:%M:%S") at time t.
TimeStr(t) == <<(t \div 3600) % 24, (t \div 60) % 60, t % 60>>

\* timeform.compose_frame(base, dryer_minutes): the base with the time of the
\* call and the dryer minutes (None or a number) drawn on it.
ComposeFrame(base, t, dryer) == <<4, base>> \o TimeStr(t) \o dryer

\* _image_to_jpeg.
ImageToJpeg(img) == Jpeg(img)

\* What the environment can answer in one tick.
Overrides == {None, Some(1), Some(2)}       \* easter_eggs.get_override_path()
Denoms == {-1, 0, 1, 3}                     \* easter_egg_chance_denominator, as stored
Dryers == {None, Some(7)}                   \* get_dryer_minutes_left()
SourceOutcomes == {"ok", "none", "raise"}   \* an image, None, or an exception
SleepSteps == {1, Interval}                 \* seconds to the next tick

\* easter_eggs.load_settings: the stored denominator, negative values read as 0.
LoadSettings(stored) == IF stored < 0 THEN 0 ELSE stored

\* ------------------------------------------------------------------ doorbell sessions

NoTask == [state |-> "unborn", stop |-> FALSE]

\* The id of the next task asyncio.create_task makes.
NewTask == Cardinality({t \in TaskIds : tasks[t].state # "unborn"}) + 1

\* asyncio.create_task(doorbell_loop(frame_buffer, stop)) with a new Event.
CreateTask(ts, t) == [ts EXCEPT ![t] = [state |-> "running", stop |-> FALSE]]

\* _stop_doorbell(task, stop_event) of generator.py and the body of
\* webhooks._stop_doorbell: set the event; a task that is not done is awaited
\* for at most 5 s and cancelled at the timeout, so it has ended on return.
StopTask(ts, task, stop) ==
    LET a == IF stop # 0 THEN [ts EXCEPT ![stop].stop = TRUE] ELSE ts
    IN  IF task # 0 /\ a[task].state = "running"
        THEN [a EXCEPT ![task].state = "done"]
        ELSE a

\* A running doorbell_loop task with its decoder: an IngestSession.
Sessions == {t \in TaskIds : tasks[t].state = "running"}

\* _compose_loop of a running session pushes a composed camera frame.
SessionPush(t) ==
    /\ tasks[t].state = "running"
    /\ ~tasks[t].stop
    /\ ncam < MaxCamFrames
    /\ FbPush(ImageToJpeg(CamImg))
    /\ ncam' = ncam + 1
    /\ UNCHANGED <<last_count, ret, part, conn_count>>
    /\ UNCHANGED <<gpc, tf_base, was_idle, last_gen_time, last_second, db_task,
                   db_stop, prev_db_active, prev_override, prev_sauna_on, hook_task,
                   hook_stop, tasks, clock, nticks, live_meta, gen, branch, last_chain, cancel_at,
                   sec_hist>>
    /\ UNCHANGED auxVars

\* webhooks._start_doorbell (action "doorbell" or "doorbell_on").
HookOn ==
    /\ IF hook_task # 0 /\ tasks[hook_task].state # "done"
       THEN UNCHANGED <<hook_task, hook_stop, tasks>>
       ELSE /\ NewTask \in TaskIds
            /\ tasks' = CreateTask(tasks, NewTask)
            /\ hook_stop' = NewTask
            /\ hook_task' = NewTask
    /\ UNCHANGED <<gpc, tf_base, was_idle, last_gen_time, last_second, db_task,
                   db_stop, prev_db_active, prev_override, prev_sauna_on, clock,
                   nticks, ncam, live_meta, gen, branch, last_chain, cancel_at,
                   sec_hist>>
    /\ UNCHANGED auxVars
    /\ UNCHANGED hubVars

\* webhooks._stop_doorbell (action "doorbell_off").
HookOff ==
    /\ tasks' = StopTask(tasks, hook_task, hook_stop)
    /\ hook_task' = 0
    /\ hook_stop' = 0
    /\ UNCHANGED <<gpc, tf_base, was_idle, last_gen_time, last_second, db_task,
                   db_stop, prev_db_active, prev_override, prev_sauna_on, clock,
                   nticks, ncam, live_meta, gen, branch, last_chain, cancel_at,
                   sec_hist>>
    /\ UNCHANGED auxVars
    /\ UNCHANGED hubVars

\* ------------------------------------------------------------------ generator

\* Step 1 of the priority chain with the override skipped when it is set.
OverrideStepSkipped(tfb, ov, ov_ok) ==
    [tf |-> tfb, frame |-> None, meta |-> "none", invoked |-> {}, failed |-> {},
     raised |-> FALSE]

\* _generate_frame, step 1: the override image, when a path is set.
OverrideStep(tfb, ov, ov_ok) ==
    IF ov # None
    THEN [tf |-> None,
          frame |-> IF ov_ok THEN Some(ImageToJpeg(OverrideImg(ov[1]))) ELSE None,
          meta |-> IF ov_ok THEN "override" ELSE "none",
          invoked |-> {"override"},
          failed |-> IF ov_ok THEN {} ELSE {"override"}, raised |-> FALSE]
    ELSE [tf |-> tfb, frame |-> None, meta |-> "none", invoked |-> {},
          failed |-> {}, raised |-> FALSE]

\* A roll that treats denominator 1 as "never".
RollOneIsNever(denom, draw) ==
    IF denom <= 1 THEN FALSE ELSE draw = 1

\* The easter egg roll for a denominator and a draw of random.randint(1, denom).
Roll(denom, draw) ==
    IF denom <= 0 THEN FALSE ELSE IF denom = 1 THEN TRUE ELSE draw = 1

\* Step 2 with the cached base kept when the roll wins.
EggStepKeepsBase(s, denom, draw, egg) ==
    IF s.frame = None /\ Roll(denom, draw)
    THEN CASE egg = "ok" ->
                [s EXCEPT !.frame = Some(ImageToJpeg(EggImg)),
                          !.meta = "easteregg", !.invoked = @ \cup {"egg"}]
           [] egg = "none" ->
                [s EXCEPT !.invoked = @ \cup {"egg"}, !.failed = @ \cup {"egg"}]
           [] OTHER ->
                [s EXCEPT !.invoked = @ \cup {"egg"}, !.raised = TRUE]
    ELSE s

\* _generate_frame, step 2: the easter egg, when no frame yet and the roll wins.
EggStep(s, denom, draw, egg) ==
    IF s.frame = None /\ Roll(denom, draw)
    THEN CASE egg = "ok" ->
                [s EXCEPT !.tf = None, !.frame = Some(ImageToJpeg(EggImg)),
                          !.meta = "easteregg", !.invoked = @ \cup {"egg"}]
           [] egg = "none" ->
                [s EXCEPT !.tf = None, !.invoked = @ \cup {"egg"},
                          !.failed = @ \cup {"egg"}]
           [] OTHER ->
                [s EXCEPT !.tf = None, !.invoked = @ \cup {"egg"}, !.raised = TRUE]
    ELSE s

\* _generate_frame, step 3: the sauna image, when no frame yet and the sauna is on.
SaunaStep(s, sauna_on, sauna) ==
    IF ~s.raised /\ s.frame = None /\ sauna_on
    THEN CASE sauna = "ok" ->
                [s EXCEPT !.tf = None, !.frame = Some(ImageToJpeg(SaunaImg)),
                          !.meta = "sauna", !.invoked = @ \cup {"sauna"}]
           [] sauna = "none" ->
                [s EXCEPT !.tf = None, !.invoked = @ \cup {"sauna"},
                          !.failed = @ \cup {"sauna"}]
           [] OTHER ->
                [s EXCEPT !.tf = None, !.invoked = @ \cup {"sauna"}, !.raised = TRUE]
    ELSE s

\* _generate_frame, step 4: the timeform, when no frame yet; t is the time at
\* which the new base is composed.
TimeformStep(s, base, t) ==
    IF ~s.raised /\ s.frame = None
    THEN CASE base = "ok" ->
                [s EXCEPT !.tf = Some(t),
                          !.frame = Some(ImageToJpeg(ComposeFrame(t, t, None))),
                          !.meta = "timeform", !.invoked = @ \cup {"timeform"}]
           [] base = "none" ->
                [s EXCEPT !.invoked = @ \cup {"timeform"},
                          !.failed = @ \cup {"timeform"}]
           [] OTHER ->
                [s EXCEPT !.invoked = @ \cup {"timeform"}, !.raised = TRUE]
    ELSE s

\* The steps above make the chain of _generate_frame.  A step's result: the
\* new _tf_base, the frame to push (None: no generator has produced one), its
\* meta type, the sources called, those of them that gave no image, and
\* whether an exception left the function.

\* What _generate_frame can do in one call: for every denominator in the
\* settings and every answer of each source the chain reaches, the result of
\* the chain, with the denominator and whether the override image loaded.
GenResults(tfb, ov, sauna_on, t) ==
    LET ChainRest(s1, d) ==
            LET S2 == IF s1.frame = None
                      THEN {EggStep(s1, d, w, e) :
                                w \in IF d > 1 THEN 1..d ELSE {1}, e \in SourceOutcomes}
                      ELSE {s1}
                S3 == UNION { IF ~s2.raised /\ s2.frame = None /\ sauna_on
                              THEN {SaunaStep(s2, sauna_on, sa) : sa \in SourceOutcomes}
                              ELSE {s2} : s2 \in S2 }
            IN  UNION { IF ~s3.raised /\ s3.frame = None
                        THEN {TimeformStep(s3, b, t) : b \in SourceOutcomes}
                        ELSE {s3} : s3 \in S3 }
    IN  UNION { UNION {
            { [ov_ok |-> k, stored |-> d, denom |-> LoadSettings(d), res |-> x] :
                x \in ChainRest(OverrideStep(tfb, ov, k), LoadSettings(d)) } :
            d \in Denoms } :
            k \in IF ov # None THEN BOOLEAN ELSE {FALSE} }

\* A start that pushes nothing.
StartPushNothing(b) == FbSame

\* "await frame_buffer.push_frame(_black_frame())".
StartPush(b) == FbPush(b)

\* generation_loop before its loop: push the black first frame.
GenStart ==
    /\ gpc = "start"
    /\ gpc' = "loop"
    /\ StartPush(ImageToJpeg(BlackImg))
    /\ UNCHANGED <<last_count, ret, part, conn_count>>
    /\ UNCHANGED <<tf_base, was_idle, last_gen_time, last_second, db_task, db_stop,
                   prev_db_active, prev_override, prev_sauna_on, hook_task,
                   hook_stop, tasks, clock, nticks, ncam, live_meta, gen, branch, last_chain, cancel_at,
                   sec_hist>>
    /\ UNCHANGED auxVars

\* generation_loop is suspended in "await _stop_doorbell(db_task, db_stop)".
GenInStop == stopper # "idle" /\ stop_by = "sched"

\* lifespan after its yield: gen_task.cancel() and "await gen_task", with
\* generation_loop suspended in the sleep between two iterations (or not yet
\* run).  The CancelledError is raised there; it is no Exception, nothing
\* catches it and no finally runs: the function is left with its locals,
\* db_task and db_stop among them, as they are.
Shutdown ==
    /\ gpc \in {"start", "loop"}
    /\ cancel_at = "none"
    /\ ~GenInStop
    /\ gpc' = "cancelled"
    /\ cancel_at' = "sleep"
    /\ UNCHANGED <<tf_base, was_idle, last_gen_time, last_second, db_task, db_stop,
                   prev_db_active, prev_override, prev_sauna_on, hook_task,
                   hook_stop, tasks, clock, nticks, ncam, live_meta, gen, branch,
                   last_chain, sec_hist>>
    /\ UNCHANGED hubVars
    /\ UNCHANGED auxVars

\* gen_task.cancel() with generation_loop suspended inside an iteration, in a
\* poll of Home Assistant or in the generation of content.  The CancelledError
\* passes "except Exception" and leaves the function.
CancelInTick(at) ==
    /\ gpc = "loop"
    /\ cancel_at = "none"
    /\ ~GenInStop
    /\ at \in {"poll", "generate"}
    /\ gpc' = "cancelled"
    /\ cancel_at' = at
    /\ UNCHANGED <<tf_base, was_idle, last_gen_time, last_second, db_task, db_stop,
                   prev_db_active, prev_override, prev_sauna_on, hook_task,
                   hook_stop, tasks, clock, nticks, ncam, live_meta, gen, branch,
                   last_chain, sec_hist>>
    /\ UNCHANGED hubVars
    /\ UNCHANGED auxVars

\* A loop body without the try / except.
TickCatchesNothing == FALSE

\* "except Exception" around the body of the while loop.
TickCatchesException == TRUE

\* A wake from idle that keeps last_gen_time.
WakeLastKept(wake, last) == last

\* "TV active again": last_gen_time = 0 forces the full chain on wake.
WakeLast(wake, last) == IF wake THEN 0 ELSE last

\* A doorbell stop that keeps last_gen_time.
AfterCameraLastKept(stopped, last) == last

\* "Doorbell deactivated": last_gen_time = 0 forces immediate generation.
AfterCameraLast(stopped, last) == IF stopped THEN 0 ELSE last

\* A loop that starts a camera feed in every tick that reads the doorbell on.
StartsSessionEveryTick(db_active, prev) == db_active

\* "Doorbell activated": the signal is on and was off in the previous tick.
StartsSession(db_active, prev) == db_active /\ ~prev

\* A loop that regenerates in every tick with the TV active.
NeedsRegenAlways(tv_active, force, now, last) == tv_active

\* The test for a full regeneration with the priority chain.
NeedsRegen(tv_active, force, now, last) ==
    tv_active /\ (force \/ now - last >= Interval)

\* A loop that regenerates on the interval alone.
ForceNever(ov, prev_ov, sauna, prev_sauna) == FALSE

\* force: the override path or the sauna state is not what the previous
\* state change detection saw.
Force(ov, prev_ov, sauna, prev_sauna) == ov # prev_ov \/ sauna # prev_sauna

\* A recomposite path that pushes on every tick.
NewSecondAlways(cur_second, last) == TRUE

\* "if cur_second != last_second".
NewSecond(cur_second, last) == cur_second # last

\* A loop that polls the doorbell whatever the TV check gave.
DbActivePolledAlways(tv, dbsig) == dbsig

\* "if tv_active: db_active = await is_doorbell_active() else: db_active =
\* False": the doorbell signal is read only with the TV active.
DbActive(tv, dbsig) == IF tv THEN dbsig ELSE FALSE

\* One iteration of generation_loop's while loop, with its sleep.  Time is
\* read in whole seconds and the awaits of one iteration take less than one.
\*   tv    : what is_tv_active() answers
\*   dbsig : the doorbell signal, what is_doorbell_active() answers if called
\*   dt        : seconds from this iteration to the next one
Tick(tv, dbsig, dt) ==
    LET \* -- TV active check
        goIdle == ~tv /\ ~was_idle
        stopA == goIdle /\ prev_db_active
        tasksA == IF stopA THEN StopTask(tasks, db_task, db_stop) ELSE tasks
        taskA == IF stopA THEN 0 ELSE db_task
        evA == IF stopA THEN 0 ELSE db_stop
        prevA == IF stopA THEN FALSE ELSE prev_db_active
        idleA == IF goIdle THEN TRUE ELSE was_idle
        wake == tv /\ idleA
        idleB == IF wake THEN FALSE ELSE idleA
        lastA == WakeLast(wake, last_gen_time)
        \* -- doorbell check
        db_active == DbActive(tv, dbsig)
        startB == StartsSession(db_active, prevA)
        stopB == ~db_active /\ prevA
        tasksB == IF startB THEN CreateTask(tasksA, NewTask)
                  ELSE IF stopB THEN StopTask(tasksA, taskA, evA) ELSE tasksA
        taskB == IF startB THEN NewTask ELSE IF stopB THEN 0 ELSE taskA
        evB == IF startB THEN NewTask ELSE IF stopB THEN 0 ELSE evA
        lastB == AfterCameraLast(stopB, lastA)
        now == clock
    IN
    /\ gpc = "loop"
    /\ nticks < MaxTicks
    /\ startB => NewTask \in TaskIds
    /\ nticks' = nticks + 1
    /\ clock' = clock + dt
    /\ was_idle' = idleB
    /\ tasks' = tasksB
    /\ db_task' = taskB
    /\ db_stop' = evB
    /\ prev_db_active' = db_active
    /\ UNCHANGED <<hook_task, hook_stop, ncam, cancel_at>>
    /\ UNCHANGED auxVars
    /\ UNCHANGED <<last_count, ret, part, conn_count>>
    /\ IF db_active
       THEN \* camera owns the stream: sleep(1) and continue
            /\ last_gen_time' = lastB
            /\ FbSame
            /\ gen' = None
            /\ branch' = "camera"
            /\ last_chain' = last_chain
            /\ sec_hist' = sec_hist
            /\ gpc' = gpc
            /\ UNCHANGED <<tf_base, last_second, prev_override, prev_sauna_on,
                           live_meta>>
       ELSE \E override_path \in IF tv THEN Overrides ELSE {prev_override},
               sauna_on \in IF tv THEN BOOLEAN ELSE {prev_sauna_on} :
            LET force == Force(override_path, prev_override, sauna_on, prev_sauna_on)
            IN
            /\ prev_override' = override_path
            /\ prev_sauna_on' = sauna_on
            /\ IF NeedsRegen(tv, force, now, lastB)
               THEN \* full regeneration with the priority chain
                    \E x \in GenResults(tf_base, override_path, sauna_on, now) :
                        /\ tf_base' = x.res.tf
                        /\ gen' = Some([override |-> override_path, ov_ok |-> x.ov_ok,
                                        stored |-> x.stored, denom |-> x.denom,
                                        sauna_on |-> sauna_on,
                                        invoked |-> x.res.invoked,
                                        failed |-> x.res.failed,
                                        winner |-> x.res.meta,
                                        frame |-> x.res.frame,
                                        raised |-> x.res.raised,
                                        wake |-> wake, after_camera |-> stopB,
                                        early |-> now - last_gen_time < Interval])
                        /\ IF ~x.res.raised /\ x.res.frame # None
                           THEN FbPush(x.res.frame[1]) /\ live_meta' = x.res.meta
                           ELSE FbSame /\ live_meta' = live_meta
                        /\ last_gen_time' = IF x.res.raised THEN lastB ELSE now
                        /\ branch' = "regen"
                        /\ last_chain' = Some(now)
                        /\ sec_hist' = sec_hist
                        /\ gpc' = IF x.res.raised /\ ~TickCatchesException
                                   THEN "dead" ELSE gpc
                        /\ UNCHANGED last_second
               ELSE IF tf_base = None
               THEN \* no cached base yet: generate one, push nothing
                    \E base \in {"ok", "none"} :
                        /\ tf_base' = IF base = "ok" THEN Some(now) ELSE None
                        /\ last_gen_time' = IF base = "ok" THEN now ELSE lastB
                        /\ FbSame
                        /\ gen' = None
                        /\ branch' = "base"
                        /\ last_chain' = last_chain
                        /\ sec_hist' = sec_hist
                        /\ gpc' = gpc
                        /\ UNCHANGED <<last_second, live_meta>>
               ELSE \* tick the cached base, once per wall-clock second
                    \E dryer \in Dryers :
                        /\ IF NewSecond(now, last_second)
                           THEN /\ last_second' = now
                                /\ FbPush(ImageToJpeg(ComposeFrame(tf_base[1], now, dryer)))
                                /\ sec_hist' = [sec_hist EXCEPT !.pushed = Append(@, now)]
                           ELSE /\ last_second' = last_second
                                /\ FbSame
                                /\ sec_hist' = [sec_hist EXCEPT !.skipped = @ + 1]
                        /\ last_gen_time' = lastB
                        /\ gen' = None
                        /\ branch' = "tick"
                        /\ last_chain' = last_chain
                        /\ gpc' = gpc
                        /\ UNCHANGED <<tf_base, live_meta>>

\* ------------------------------------------------------------------ pipe reader

\* bytes.find(bytes([a, b]), start): the first index at or after start where
\* the two bytes stand, 0 when there is none (indices from 1; Python's -1).
RECURSIVE Find(_, _, _, _)
Find(buf, a, b, start) ==
    IF start + 1 > Len(buf) THEN 0
    ELSE IF buf[start] = a /\ buf[start + 1] = b THEN start
    ELSE Find(buf, a, b, start + 1)

\* The inner "while True" of _pipe_reader on the record of buf,
\* state["latest"], state["received"] and the frames extracted so far.
RECURSIVE ExtractFrames(_)
ExtractFrames(st) ==
    LET soi == Find(st.buf, 255, 216, 1)
        eoi == Find(st.buf, 255, 217, soi + 2)
        jpeg == SubSeq(st.buf, soi, eoi + 1)
    IN  IF soi = 0 THEN [st EXCEPT !.buf = <<>>]
        ELSE IF eoi = 0
        THEN [st EXCEPT !.buf = SubSeq(st.buf, soi, Len(st.buf))]
        ELSE ExtractFrames([buf |-> SubSeq(st.buf, eoi + 2, Len(st.buf)),
                            latest |-> Some(jpeg),
                            received |-> st.received + 1,
                            frames |-> Append(st.frames, jpeg)])

\* One iteration of _pipe_reader's outer loop: read returns the next k bytes
\* of the stream, they are appended to buf and the complete frames taken out.
ReadChunk(k) ==
    /\ p_pc = "reading"
    /\ k \in 1..Len(p_in)
    /\ LET st == ExtractFrames([buf |-> p_buf \o SubSeq(p_in, 1, k),
                                latest |-> p_latest,
                                received |-> p_received,
                                frames |-> p_frames])
       IN  /\ p_buf' = st.buf
           /\ p_latest' = st.latest
           /\ p_received' = st.received
           /\ p_frames' = st.frames
    /\ p_in' = SubSeq(p_in, k + 1, Len(p_in))
    /\ UNCHANGED <<p_pc, p_stream>>
    /\ UNCHANGED <<hubVars, schedVars, haVars, dlVars, eggVars>>

\* The decoder has closed its stdout: read returns b"" and the loop is left.
ReadEof ==
    /\ p_pc = "reading"
    /\ p_in = <<>>
    /\ p_pc' = "done"
    /\ UNCHANGED <<p_in, p_buf, p_latest, p_received, p_frames, p_stream>>
    /\ UNCHANGED <<hubVars, schedVars, haVars, dlVars, eggVars>>

\* The streams a decoder delivers: bytes without a start marker, then two
\* JPEGs back to back.
Jpeg1 == Jpeg(<<1>>)
Jpeg2 == Jpeg(<<2, 2>>)
Garbage == {<<>>, <<0>>, <<255>>, <<0, 255>>, <<255, 217>>, <<216, 0>>}
PipeStreams == {g \o Jpeg1 \o Jpeg2 : g \in Garbage}

\* No _pipe_reader is running.
PipeOff ==
    /\ p_in = <<>>
    /\ p_pc = "off"
    /\ p_buf = <<>>
    /\ p_latest = None
    /\ p_received = 0
    /\ p_frames = <<>>
    /\ p_stream = <<>>

\* A _pipe_reader has been started on a stream.
PipeOn ==
    /\ p_stream \in PipeStreams
    /\ p_in = p_stream
    /\ p_pc = "reading"
    /\ p_buf = <<>>
    /\ p_latest = None
    /\ p_received = 0
    /\ p_frames = <<>>

\* ------------------------------------------------------------------ home assistant

\* What the GET of /api/states/<entity> can do: raise (a timeout, a refused
\* connection), answer with an error status (raise_for_status raises), answer
\* with a body that is not JSON (resp.json() raises), or answer with a JSON
\* document: null, a list, or an object with or without a "state".
FetchErrors == {"timeout", "connect_error", "http_error", "bad_json"}
HaStates == {"on", "On", "ON", "off", "unavailable", ""}
HaDocs == {[kind |-> "null", state |-> None], [kind |-> "list", state |-> None],
           [kind |-> "dict", state |-> None]}
          \cup {[kind |-> "dict", state |-> Some(v)] : v \in HaStates}
Fetches == {[kind |-> e, doc |-> None] : e \in FetchErrors}
           \cup {[kind |-> "ok", doc |-> Some(d)] : d \in HaDocs}
HaConfs == [base_url : BOOLEAN, token : BOOLEAN, client : BOOLEAN]

\* str.lower() on the state strings.
Lower(v) == IF v \in {"On", "ON"} THEN "on" ELSE v

\* _get_state without its try / except: the exception of the request leaves it.
GetStateNoExcept(conf, f) ==
    IF ~conf.base_url \/ ~conf.token \/ ~conf.client
    THEN [data |-> None, raised |-> FALSE]
    ELSE IF f.kind \in FetchErrors THEN [data |-> None, raised |-> TRUE]
    ELSE IF f.doc[1].kind = "null" THEN [data |-> None, raised |-> FALSE]
    ELSE [data |-> f.doc, raised |-> FALSE]

\* _get_state: None when Home Assistant is not configured or the request
\* fails in any way, else the decoded document.
GetState(conf, f) ==
    IF ~conf.base_url \/ ~conf.token \/ ~conf.client
    THEN [data |-> None, raised |-> FALSE]
    ELSE IF f.kind \in FetchErrors THEN [data |-> None, raised |-> FALSE]
    ELSE IF f.doc[1].kind = "null" THEN [data |-> None, raised |-> FALSE]
    ELSE [data |-> f.doc, raised |-> FALSE]

\* str(data.get("state", "")).lower() == "on"; a document without .get raises.
StateIsOn(doc) ==
    IF doc.kind # "dict" THEN [value |-> FALSE, raised |-> TRUE]
    ELSE [value |-> Lower(IF doc.state = None THEN "" ELSE doc.state[1]) = "on",
          raised |-> FALSE]

\* is_tv_active on what _get_state gave.
IsTvActive(g) ==
    IF g.raised THEN [value |-> FALSE, raised |-> TRUE]
    ELSE IF g.data = None THEN [value |-> TRUE, raised |-> FALSE]
    ELSE StateIsOn(g.data[1])

\* is_doorbell_active on what _get_state gave.
IsDoorbellActive(g) ==
    IF g.raised THEN [value |-> FALSE, raised |-> TRUE]
    ELSE IF g.data = None THEN [value |-> FALSE, raised |-> FALSE]
    ELSE StateIsOn(g.data[1])

\* One call of is_tv_active().
CheckTv(f) ==
    /\ ha_check' = "tv"
    /\ ha_fetch' = f
    /\ ha_ret' = IsTvActive(GetState(ha_conf, f))
    /\ UNCHANGED <<ha_conf, hubVars, schedVars, pipeVars, dlVars, eggVars>>

\* One call of is_doorbell_active().
CheckDoorbell(f) ==
    /\ ha_check' = "doorbell"
    /\ ha_fetch' = f
    /\ ha_ret' = IsDoorbellActive(GetState(ha_conf, f))
    /\ UNCHANGED <<ha_conf, hubVars, schedVars, pipeVars, dlVars, eggVars>>

\* No check has been called; everything is configured.
HaOff ==
    /\ ha_conf = [base_url |-> TRUE, token |-> TRUE, client |-> TRUE]
    /\ ha_check = "none"
    /\ ha_fetch = [kind |-> "ok", doc |-> Some([kind |-> "null", state |-> None])]
    /\ ha_ret = [value |-> FALSE, raised |-> FALSE]

\* ------------------------------------------------------------------ easter eggs

HA_CACHE_TTL_SECONDS == 30

MaxEggs == 2
MaxEggCalls == 2

\* Image files of the directory; 0 is a file the listing leaves out (its
\* name starts with "rotated_" or has no image extension).
EggNames == 1..MaxEggs
DirNames == 0..MaxEggs

\* The "priority" of a manifest entry: no key, a number, or a value that
\* int() refuses (null, a list, a word).
EggPriorities == {[kind |-> "absent", n |-> 0], [kind |-> "int", n |-> 0],
                  [kind |-> "bad", n |-> 0]}
Flags == {None, Some(TRUE), Some(FALSE)}

\* The value of a manifest entry: a JSON object with its keys, or another value.
NonDictMeta == [dict |-> FALSE, enabled |-> None, explicit |-> None,
                priority |-> [kind |-> "absent", n |-> 0]]
EggMetas == {NonDictMeta}
            \cup {[dict |-> TRUE, enabled |-> en, explicit |-> ex, priority |-> pr] :
                    en \in Flags, ex \in Flags, pr \in EggPriorities}

\* The manifest file: absent, not JSON, JSON that is no object, an object
\* whose "images" is no object, or an object with its images in file order.
ManifestKinds == {"absent", "unreadable", "nondict", "images_nondict", "ok"}

\* dict.get(key, default) on a flag of an entry.
GetFlag(flag, default) == IF flag = None THEN default ELSE flag[1]

\* max(1, min(10, int(p))).
ClampPriority(n) == IF n < 1 THEN 1 ELSE IF n > 10 THEN 10 ELSE n

\* int(meta.get("priority", 5)) raises on a value that is no number.
PriorityRaises(pr) == pr.kind = "bad"

\* The for loop of _get_candidates over the images from the first entry of
\* the sequence on: enabled names, explicit names, the priority map (0: no
\* entry) and whether an exception has left the loop.
RECURSIVE ScanImages(_, _)
ScanImages(images, acc) ==
    IF images = <<>> \/ acc.raised THEN acc
    ELSE LET name == Head(images).name
             meta == Head(images).meta
         IN  IF ~meta.dict THEN ScanImages(Tail(images), acc)
             ELSE LET en == IF GetFlag(meta.enabled, TRUE)
                            THEN acc.enabled \cup {name} ELSE acc.enabled
                      ex == IF GetFlag(meta.explicit, FALSE)
                            THEN acc.explicit \cup {name} ELSE acc.explicit
                      n  == IF meta.priority.kind = "absent" THEN 5 ELSE meta.priority.n
                  IN  IF PriorityRaises(meta.priority)
                      THEN [acc EXCEPT !.enabled = en, !.explicit = ex, !.raised = TRUE]
                      ELSE ScanImages(Tail(images),
                             [acc EXCEPT !.enabled = en, !.explicit = ex,
                                         !.priority_map[name] = ClampPriority(n)])

\* _get_candidates: (files, enabled_set, explicit_set, priority_map).
\* enabled_set is assigned after the loop only, explicit_set inside it.
GetCandidates(dir, manifest) ==
    LET files == IF dir = None THEN {} ELSE dir[1] \cap EggNames
        acc0  == [enabled |-> {}, explicit |-> {},
                  priority_map |-> [n \in EggNames |-> 0], raised |-> FALSE]
        acc   == IF manifest.kind = "ok" THEN ScanImages(manifest.images, acc0)
                 ELSE acc0
    IN  [files |-> files,
         enabled_set |-> IF manifest.kind \in {"absent", "unreadable", "images_nondict"}
                            \/ acc.raised
                         THEN None ELSE Some(acc.enabled),
         explicit_set |-> acc.explicit,
         priority_map |-> acc.priority_map]

\* ha_explicit_allowed on the cache, the time and what _get_state gave: the
\* value, whether it raised, and the cache afterwards.
ExplicitAllowed(cache, now, g) ==
    IF cache.value # None /\ now - cache.ts < HA_CACHE_TTL_SECONDS
    THEN [value |-> cache.value[1], raised |-> FALSE, cache |-> cache]
    ELSE IF g.data = None
    THEN LET c == IF cache.value = None THEN [value |-> Some(FALSE), ts |-> now]
                  ELSE cache
         IN  [value |-> c.value[1], raised |-> FALSE, cache |-> c]
    ELSE LET on == StateIsOn(g.data[1])
         IN  IF on.raised THEN [value |-> FALSE, raised |-> TRUE, cache |-> cache]
             ELSE [value |-> on.value, raised |-> FALSE,
                   cache |-> [value |-> Some(on.value), ts |-> now]]

\* The candidates of get_random_egg before and after the gate.
Enabled(c) == IF c.enabled_set # None THEN c.files \cap c.enabled_set[1] ELSE c.files
Gated(c, allow) == IF allow THEN Enabled(c) ELSE Enabled(c) \ c.explicit_set

\* random.choices weights: max(1, priority_map.get(f, 5)).
Weight(c, f) == IF c.priority_map[f] = 0 THEN 5 ELSE c.priority_map[f]

NoEgg == [selected |-> None, allow |-> None, raised |-> FALSE]

\* One call of get_random_egg(): f is what Home Assistant answers,
\* openable whether Image.open succeeds, dt the time since the last call.
GetRandomEgg(f, openable, dt) ==
    /\ eg_calls < MaxEggCalls
    /\ eg_calls' = eg_calls + 1
    /\ eg_now' = eg_now + dt
    /\ LET c == GetCandidates(eg_dir, eg_manifest)
       IN  IF eg_dir = None \/ Enabled(c) = {}
           THEN /\ eg_ret' = NoEgg
                /\ UNCHANGED ha_cache
           ELSE LET a == ExplicitAllowed(ha_cache, eg_now', GetState(ha_conf, f))
                IN  /\ ha_cache' = a.cache
                    /\ IF a.raised
                       THEN eg_ret' = [NoEgg EXCEPT !.raised = TRUE]
                       ELSE IF Gated(c, a.value) = {}
                       THEN eg_ret' = [NoEgg EXCEPT !.allow = Some(a.value)]
                       ELSE \E selected \in {x \in Gated(c, a.value) : Weight(c, x) > 0} :
                              eg_ret' = [selected |-> IF openable THEN Some(selected)
                                                      ELSE None,
                                         allow |-> Some(a.value), raised |-> FALSE]
    /\ UNCHANGED <<eg_dir, eg_manifest>>
    /\ UNCHANGED <<hubVars, schedVars, pipeVars, haVars, dlVars>>

\* The entries of a manifest have different names (the keys of an object).
DistinctNames(images) ==
    \A i, j \in DOMAIN images : images[i].name = images[j].name => i = j

Manifests ==
    {[kind |-> k, images |-> <<>>] : k \in ManifestKinds}
    \cup {[kind |-> "ok", images |-> im] :
            im \in {x \in UNION {[1..n -> [name : EggNames, meta : EggMetas]] :
                                    n \in 1..MaxEggs} : DistinctNames(x)}}

Dirs == {None} \cup {Some(d) : d \in SUBSET DirNames}

\* No directory, no manifest, nothing cached, no call made.
EggOff ==
    /\ ha_cache = [value |-> None, ts |-> 0]
    /\ eg_now = 0
    /\ eg_calls = 0
    /\ eg_dir = None
    /\ eg_manifest = [kind |-> "absent", images |-> <<>>]
    /\ eg_ret = NoEgg

\* ------------------------------------------------------------------ doorbell_loop

\* Task.cancel() on a stage: a task that is not done ends cancelled, without
\* running any further statement of its coroutine.
Cancel(t) == IF t \in {"ready", "reading", "composing"} THEN "cancelled" ELSE t

\* A composer that pushes whatever is in the cell in every interval.
NeedsComposeAlways(r, last) == r # None

\* "raw is not None and raw is not last_raw".  Every frame _pipe_reader
\* extracts is a new bytes object, so the identity of a frame is its
\* <<run, number>>.
NeedsCompose(r, last) == r # None /\ r # last

\* A restart that keeps the cell of the run before.
FreshLatestKept(old) == old

\* state = {"latest": None, "received": 0}, made anew for every decoder.
FreshLatest(old) == None

\* A loop that ends after the first decoder run.
AfterRunGivesUp(stop) == "done"

\* After the finally: sleep(2.0) when stop is not set; when it is set the loop
\* condition is false and doorbell_loop returns.
AfterRun(stop) == IF stop THEN "done" ELSE "backoff"

\* A stop that waits for every task it is given.
TaskPendingAlways(present, st) == present

\* "task and not task.done()".
TaskPending(present, st) == present /\ st \notin {"done", "cancelled"}

\* A wait_for without timeout.
WaitForNeverTimesOut == FALSE

\* asyncio.wait_for(task, timeout=5) gives up when the task is not done in time.
WaitForTimesOut == TRUE

\* overlay.compose(raw): the camera frame on the template, as a JPEG; a frame
\* that turbojpeg cannot decode is returned as it is.
Compose(frame, decodable) ==
    IF decodable THEN ImageToJpeg(CamImg \o frame) ELSE Jpeg(frame)

\* The end of the finally block: the stages that are not done are cancelled;
\* a CancelledError that came through goes on out of doorbell_loop.
LeaveFinally(cancel, rt) ==
    /\ reader_task' = Cancel(rt)
    /\ compose_task' = Cancel(compose_task)
    /\ cancelling' = FALSE
    /\ dl_pc' = IF cancel THEN "cancelled" ELSE AfterRun(stop_set)

\* The finally block from its start: a process without returncode is killed
\* and process.wait() awaited under a shield.
EnterFinally(cancel, rt) ==
    IF process \in {"alive", "eof"}
    THEN /\ process' = "killed"
         /\ dl_pc' = "killing"
         /\ cancelling' = cancel
         /\ reader_task' = rt
         /\ compose_task' = compose_task
    ELSE /\ process' = process
         /\ LeaveFinally(cancel, rt)

\* The owner makes a stop event and a doorbell_loop task.
StartSession ==
    /\ dl_pc = "unborn"
    /\ ~has_task
    /\ stop_calls = 0
    /\ dl_pc' = "start"
    /\ has_task' = TRUE
    /\ has_event' = TRUE
    /\ stop_set' = FALSE
    /\ UNCHANGED <<cancelling, process, reader_task, compose_task, latest,
                   received, last_raw, raw, pushed, runs, out, stopper, stop_by,
                   stop_calls, timeouts, cam, sess_pushed, sess_received>>
    /\ UNCHANGED <<hubVars, schedVars, pipeVars, haVars, eggVars>>

\* doorbell_loop from the test of its while loop to its next suspension:
\* return when stop is set, else spawn the decoder (ok) and start the two
\* stages, or (not ok) fail to spawn, pass the finally and go to the backoff.
LoopTop(ok) ==
    /\ dl_pc \in {"start", "backoff"}
    /\ IF stop_set
       THEN /\ dl_pc' = "done"
            /\ UNCHANGED <<process, reader_task, compose_task, latest, received,
                           last_raw, raw, pushed, runs, out>>
       ELSE /\ runs < MaxRuns
            /\ runs' = runs + 1
            /\ IF ok
               THEN /\ process' = "alive"
                    /\ out' = 0
                    /\ latest' = FreshLatest(latest)
                    /\ received' = 0
                    /\ reader_task' = "ready"
                    /\ compose_task' = "ready"
                    /\ last_raw' = None
                    /\ raw' = None
                    /\ pushed' = 0
                    /\ dl_pc' = "await_reader"
               ELSE /\ process' = "none"
                    /\ reader_task' = "none"
                    /\ compose_task' = "none"
                    /\ dl_pc' = AfterRun(stop_set)
                    /\ UNCHANGED <<latest, received, last_raw, raw, pushed, out>>
    /\ UNCHANGED <<cancelling, stop_set, has_task, has_event, stopper, stop_by,
                   stop_calls, timeouts, cam, sess_pushed, sess_received>>
    /\ UNCHANGED <<hubVars, schedVars, pipeVars, haVars, eggVars>>

\* _pipe_reader runs for the first time: the test of its while loop.
ReaderBegin ==
    /\ reader_task = "ready"
    /\ reader_task' = IF stop_set THEN "done" ELSE "reading"
    /\ UNCHANGED <<dl_pc, cancelling, stop_set, has_task, has_event, process,
                   compose_task, latest, received, last_raw, raw, pushed, runs,
                   out, stopper, stop_by, stop_calls, timeouts, cam, sess_pushed, sess_received>>
    /\ UNCHANGED <<hubVars, schedVars, pipeVars, haVars, eggVars>>

\* A reader that writes the cell only when the composer has taken the frame
\* in it.
MayOverwriteWhenConsumed(cell, taken) == cell = None \/ cell = taken

\* state["latest"] = jpeg: an assignment, whatever the cell holds.
MayOverwrite(cell, taken) == TRUE

\* read returns a chunk that completes k frames: the last one is left in the
\* cell, and the while loop tests stop again.
ReaderRead(k) ==
    /\ reader_task = "reading"
    /\ process = "alive"
    /\ MayOverwrite(latest, last_raw)
    /\ k \in 0..(MaxRunFrames - out)
    /\ out' = out + k
    /\ latest' = IF k > 0 THEN Some(<<runs, out + k>>) ELSE latest
    /\ received' = received + k
    /\ sess_received' = sess_received + k
    /\ reader_task' = IF stop_set THEN "done" ELSE "reading"
    /\ UNCHANGED <<dl_pc, cancelling, stop_set, has_task, has_event, process,
                   compose_task, last_raw, raw, pushed, runs, stopper, stop_by,
                   stop_calls, timeouts, cam, sess_pushed>>
    /\ UNCHANGED <<hubVars, schedVars, pipeVars, haVars, eggVars>>

\* The decoder closes its stdout, still running (eof) or by exiting.
ProcCloses(how) ==
    /\ process = "alive"
    /\ how \in {"eof", "exited"}
    /\ process' = how
    /\ UNCHANGED <<dl_pc, cancelling, stop_set, has_task, has_event, reader_task,
                   compose_task, latest, received, last_raw, raw, pushed, runs,
                   out, stopper, stop_by, stop_calls, timeouts, cam, sess_pushed, sess_received>>
    /\ UNCHANGED <<hubVars, schedVars, pipeVars, haVars, eggVars>>

\* read returns b"": the reader leaves its loop.
ReaderEof ==
    /\ reader_task = "reading"
    /\ process \in {"eof", "exited", "killed"}
    /\ reader_task' = "done"
    /\ UNCHANGED <<dl_pc, cancelling, stop_set, has_task, has_event, process,
                   compose_task, latest, received, last_raw, raw, pushed, runs,
                   out, stopper, stop_by, stop_calls, timeouts, cam, sess_pushed, sess_received>>
    /\ UNCHANGED <<hubVars, schedVars, pipeVars, haVars, eggVars>>

\* read raises: a stream error.
ReaderFail ==
    /\ reader_task = "reading"
    /\ process = "alive"
    /\ reader_task' = "failed"
    /\ UNCHANGED <<dl_pc, cancelling, stop_set, has_task, has_event, process,
                   compose_task, latest, received, last_raw, raw, pushed, runs,
                   out, stopper, stop_by, stop_calls, timeouts, cam, sess_pushed, sess_received>>
    /\ UNCHANGED <<hubVars, schedVars, pipeVars, haVars, eggVars>>

\* "await reader_task" returns or raises an Exception (logged): the finally.
LoopReaderDone ==
    /\ dl_pc = "await_reader"
    /\ reader_task \in {"done", "failed"}
    /\ EnterFinally(FALSE, reader_task)
    /\ UNCHANGED <<stop_set, has_task, has_event, latest, received, last_raw, raw,
                   pushed, runs, out, stopper, stop_by, stop_calls, timeouts, cam, sess_pushed,
                   sess_received>>
    /\ UNCHANGED <<hubVars, schedVars, pipeVars, haVars, eggVars>>

\* process.wait() returns after the kill: the rest of the finally.
LoopReaped ==
    /\ dl_pc = "killing"
    /\ LeaveFinally(cancelling, reader_task)
    /\ UNCHANGED <<stop_set, has_task, has_event, process, latest, received,
                   last_raw, raw, pushed, runs, out, stopper, stop_by, stop_calls,
                   timeouts, cam, sess_pushed, sess_received>>
    /\ UNCHANGED <<hubVars, schedVars, pipeVars, haVars, eggVars>>

\* _compose_loop wakes from its sleep: leave when stop is set, start on the
\* frame in the cell when there is a new one, else sleep again.
CompWake ==
    /\ compose_task = "ready"
    /\ IF stop_set
       THEN /\ compose_task' = "done"
            /\ UNCHANGED <<last_raw, raw>>
       ELSE IF NeedsCompose(latest, last_raw)
       THEN /\ last_raw' = latest
            /\ raw' = latest
            /\ compose_task' = "composing"
       ELSE UNCHANGED <<compose_task, last_raw, raw>>
    /\ UNCHANGED <<dl_pc, cancelling, stop_set, has_task, has_event, process,
                   reader_task, latest, received, pushed, runs, out, stopper,
                   stop_by, stop_calls, timeouts, cam, sess_pushed, sess_received>>
    /\ UNCHANGED <<hubVars, schedVars, pipeVars, haVars, eggVars>>

\* overlay.compose catches the exception of the decode only: what is raised
\* after it leaves it (the crop of a frame of at most 54 rows leaves no row
\* and the scale divides by zero; int(cam_h * scale) can round one row below
\* camera_h and copyto then refuses the shapes; resize and encode can fail).
ComposeCanRaise == TRUE

\* The compose call raises: run_in_executor hands the exception to
\* _compose_loop, which has no handler, and the task ends with it.
\* doorbell_loop awaits the reader only and does not see it.
CompFail ==
    /\ compose_task = "composing"
    /\ ComposeCanRaise
    /\ compose_task' = "failed"
    /\ UNCHANGED <<dl_pc, cancelling, stop_set, has_task, has_event, process,
                   reader_task, latest, received, last_raw, raw, pushed, runs, out,
                   stopper, stop_by, stop_calls, timeouts, cam, sess_pushed,
                   sess_received>>
    /\ UNCHANGED <<hubVars, schedVars, pipeVars, haVars, eggVars>>

\* The executor has composed the frame: push_frame, count, sleep.
CompPush(decodable) ==
    /\ compose_task = "composing"
    /\ FbPush(Compose(raw[1], decodable))
    /\ pushed' = pushed + 1
    /\ cam' = Some([frame |-> raw[1], at |-> runs])
    /\ sess_pushed' = sess_pushed + 1
    /\ compose_task' = "ready"
    /\ UNCHANGED <<dl_pc, cancelling, stop_set, has_task, has_event, process,
                   reader_task, latest, received, last_raw, raw, runs, out,
                   stopper, stop_by, stop_calls, timeouts, sess_received>>
    /\ UNCHANGED <<last_count, ret, part, conn_count, schedVars, pipeVars, haVars, eggVars>>

\* _stop_doorbell up to its wait_for: generator._stop_doorbell(task,
\* stop_event) with the owner's task and event (by = "sched"), or
\* webhooks._stop_doorbell (by = "hook"), which also forgets both.
StopCall(by) ==
    /\ stopper = "idle"
    /\ stop_calls < MaxStops
    /\ by \in {"sched", "hook"}
    /\ stop_calls' = stop_calls + 1
    /\ timeouts' = 0
    /\ stop_set' = IF has_event THEN TRUE ELSE stop_set
    /\ IF TaskPending(has_task, dl_pc)
       THEN /\ stopper' = "waiting"
            /\ stop_by' = by
            /\ UNCHANGED <<has_task, has_event>>
       ELSE /\ stopper' = "idle"
            /\ stop_by' = stop_by
            /\ has_task' = IF by = "hook" THEN FALSE ELSE has_task
            /\ has_event' = IF by = "hook" THEN FALSE ELSE has_event
    /\ UNCHANGED <<dl_pc, cancelling, process, reader_task, compose_task, latest,
                   received, last_raw, raw, pushed, runs, out, cam, sess_pushed, sess_received>>
    /\ UNCHANGED <<hubVars, schedVars, pipeVars, haVars, eggVars>>

\* The task has ended: wait_for returns (or raises TimeoutError after the
\* cancelled task has ended) and _stop_doorbell returns.
StopWaitOver ==
    /\ stopper \in {"waiting", "cancel_wait"}
    /\ dl_pc \in {"done", "cancelled"}
    /\ stopper' = "idle"
    /\ stop_by' = "none"
    /\ has_task' = IF stop_by = "hook" THEN FALSE ELSE has_task
    /\ has_event' = IF stop_by = "hook" THEN FALSE ELSE has_event
    /\ UNCHANGED <<dl_pc, cancelling, stop_set, process, reader_task, compose_task,
                   latest, received, last_raw, raw, pushed, runs, out, stop_calls,
                   timeouts, cam, sess_pushed, sess_received>>
    /\ UNCHANGED <<hubVars, schedVars, pipeVars, haVars, eggVars>>

\* Task.cancel() on a doorbell_loop task that is not done.  The CancelledError
\* is raised where doorbell_loop is suspended: before its first statement or
\* in the backoff sleep it leaves the function; in "await reader_task" it
\* cancels the reader and passes the finally; in the finally's shielded wait
\* it is swallowed and the finally runs on (and a CancelledError that was
\* passing through the finally goes on out of the function).
CancelLoop ==
    CASE dl_pc \in {"start", "backoff"} ->
              /\ dl_pc' = "cancelled"
              /\ UNCHANGED <<cancelling, process, reader_task, compose_task>>
      [] dl_pc = "await_reader" ->
              EnterFinally(TRUE, Cancel(reader_task))
      [] dl_pc = "killing" ->
              /\ process' = process
              /\ LeaveFinally(cancelling, reader_task)

\* The 5 s of wait_for are over and the task is not done: it is cancelled and
\* awaited.
StopTimeout ==
    /\ stopper = "waiting"
    /\ dl_pc \notin {"done", "cancelled"}
    /\ WaitForTimesOut
    /\ timeouts' = timeouts + 1
    /\ stopper' = "cancel_wait"
    /\ CancelLoop
    /\ UNCHANGED <<stop_set, has_task, has_event, latest, received, last_raw, raw,
                   pushed, runs, out, stop_by, stop_calls, cam, sess_pushed, sess_received>>
    /\ UNCHANGED <<hubVars, schedVars, pipeVars, haVars, eggVars>>

\* gen_task.cancel() with generation_loop suspended in _stop_doorbell's
\* wait_for.  The task being waited for is cancelled with it, and wait_for
\* waits for it to end; the CancelledError that comes out of wait_for is caught
\* by "except (asyncio.TimeoutError, asyncio.CancelledError)", or wait_for
\* returns because the task had ended: _stop_doorbell returns and
\* generation_loop runs on.  When wait_for had already timed out and was
\* waiting for the cancelled task to end, the wait_for of Python before 3.12
\* (old) gives that wait up: _stop_doorbell returns at once, and its
\* task.cancel() makes doorbell_loop leave its shielded wait when it runs next.
CancelInStop(old) ==
    /\ gpc = "loop"
    /\ cancel_at = "none"
    /\ GenInStop
    /\ cancel_at' = "stop"
    /\ IF dl_pc \in {"done", "cancelled"}
       THEN /\ stopper' = "cancel_wait"
            /\ UNCHANGED <<dl_pc, cancelling, process, reader_task, compose_task,
                           stop_by>>
       ELSE IF stopper = "cancel_wait" /\ old
       THEN /\ stopper' = "idle"
            /\ stop_by' = "none"
            /\ UNCHANGED <<dl_pc, cancelling, process, reader_task, compose_task>>
       ELSE /\ stopper' = "cancel_wait"
            /\ stop_by' = stop_by
            /\ CancelLoop
    /\ UNCHANGED <<stop_set, has_task, has_event, latest, received, last_raw, raw,
                   pushed, runs, out, stop_calls, timeouts, cam, sess_pushed,
                   sess_received>>
    /\ UNCHANGED <<gpc, tf_base, was_idle, last_gen_time, last_second, db_task,
                   db_stop, prev_db_active, prev_override, prev_sauna_on, hook_task,
                   hook_stop, tasks, clock, nticks, ncam, live_meta, gen, branch,
                   last_chain, sec_hist>>
    /\ UNCHANGED <<hubVars, pipeVars, haVars, eggVars>>

\* generation_loop after its "await _stop_doorbell(db_task, db_stop)" has
\* returned in the "doorbell deactivated" branch: db_task = db_stop = None,
\* last_gen_time = 0, and the rest of the iteration, which runs the priority
\* chain (here without override, with the sauna off and the easter egg odds
\* at "never") and sleeps.  The chain comes after the polls of Home Assistant
\* have been answered; a doorbell_loop that a cancel has made runnable has
\* run by then.
RegenAfterStop ==
    /\ gpc = "loop"
    /\ stopper = "idle"
    /\ stop_calls >= 1
    /\ has_task
    /\ dl_pc \in {"done", "cancelled"}
    /\ has_task' = FALSE
    /\ has_event' = FALSE
    /\ \E x \in {y \in GenResults(tf_base, None, FALSE, clock) : y.stored = 0} :
          /\ tf_base' = x.res.tf
          /\ gen' = Some([override |-> None, ov_ok |-> x.ov_ok,
                          stored |-> x.stored, denom |-> x.denom,
                          sauna_on |-> FALSE,
                          invoked |-> x.res.invoked,
                          failed |-> x.res.failed,
                          winner |-> x.res.meta,
                          frame |-> x.res.frame,
                          raised |-> x.res.raised,
                          wake |-> FALSE, after_camera |-> TRUE,
                          early |-> clock - last_gen_time < Interval])
          /\ IF ~x.res.raised /\ x.res.frame # None
             THEN FbPush(x.res.frame[1]) /\ live_meta' = x.res.meta
             ELSE FbSame /\ live_meta' = live_meta
          /\ last_gen_time' = IF x.res.raised THEN 0 ELSE clock
    /\ branch' = "regen"
    /\ last_chain' = Some(clock)
    /\ nticks' = nticks + 1
    /\ clock' = clock + 1
    /\ UNCHANGED <<gpc, was_idle, last_second, db_task, db_stop, prev_db_active,
                   prev_override, prev_sauna_on, hook_task, hook_stop, tasks, ncam,
                   cancel_at, sec_hist>>
    /\ UNCHANGED <<dl_pc, cancelling, stop_set, process, reader_task, compose_task,
                   latest, received, last_raw, raw, pushed, runs, out, stopper,
                   stop_by, stop_calls, timeouts, cam, sess_pushed, sess_received>>
    /\ UNCHANGED <<last_count, ret, part, conn_count, pipeVars, haVars, eggVars>>

\* No doorbell_loop task has been made.
DlOff ==
    /\ dl_pc = "unborn"
    /\ cancelling = FALSE
    /\ stop_set = FALSE
    /\ has_task = FALSE
    /\ has_event = FALSE
    /\ process = "none"
    /\ reader_task = "none"
    /\ compose_task = "none"
    /\ latest = None
    /\ received = 0
    /\ last_raw = None
    /\ raw = None
    /\ pushed = 0
    /\ runs = 0
    /\ out = 0
    /\ stopper = "idle"
    /\ stop_by = "none"
    /\ stop_calls = 0
    /\ timeouts = 0
    /\ cam = None
    /\ sess_pushed = 0
    /\ sess_received = 0

SchedInit ==
    /\ gpc = "start"
    /\ tf_base = None
    /\ was_idle = FALSE
    /\ last_gen_time = 0
    /\ last_second = -1
    /\ db_task = 0
    /\ db_stop = 0
    /\ prev_db_active = FALSE
    /\ prev_override = None
    /\ prev_sauna_on = FALSE
    /\ hook_task = 0
    /\ hook_stop = 0
    /\ tasks = [t \in TaskIds |-> NoTask]
    /\ clock = Interval
    /\ nticks = 0
    /\ ncam = 0
    /\ live_meta = "none"
    /\ gen = None
    /\ branch = "none"
    /\ last_chain = None
    /\ cancel_at = "none"
    /\ sec_hist = [pushed |-> <<>>, skipped |-> 0]

HubInit ==
    /\ SchedInit
    /\ PipeOff
    /\ HaOff
    /\ EggOff
    /\ DlOff
    /\ current_frame = None
    /\ frame_count = 0
    /\ cond_locked = FALSE
    /\ pc = [r \in Readers |-> "off"]
    /\ last_count = [r \in Readers |-> -1]
    /\ ret = [r \in Readers |-> None]
    /\ part = [r \in Readers |-> None]
    /\ conn_count = [r \in Readers |-> 0]
    /\ n_pushes = 0
    /\ last_pushed = None

\* wait_for_frame called directly with any last_count, also one larger than
\* the number of pushes made: every reader starts about to call it.
WaitArgs == (-2)..(MaxPush + 1)

WaitInit ==
    /\ SchedInit
    /\ PipeOff
    /\ HaOff
    /\ EggOff
    /\ DlOff
    /\ current_frame = None
    /\ frame_count = 0
    /\ cond_locked = FALSE
    /\ pc = [r \in Readers |-> "idle"]
    /\ last_count \in [Readers -> WaitArgs]
    /\ ret = [r \in Readers |-> None]
    /\ part = [r \in Readers |-> None]
    /\ conn_count = [r \in Readers |-> 0]
    /\ n_pushes = 0
    /\ last_pushed = None

vars == <<hubVars, schedVars, pipeVars, haVars, eggVars, dlVars>>

Init == HubInit

HubNext ==
    \/ \E b \in HubFrames : PushFrame(b)
    \/ \E r \in Readers : Connect(r)
    \/ \E r \in Readers : WaitCall(r)
    \/ \E r \in Readers : WaitResume(r)
    \/ \E r \in Readers : SendPart(r)

\* The FrameBuffer with /stream clients and an arbitrary publisher.
SpecHub == Init /\ [][HubNext]_vars

\* The same under the event loop's scheduling: a ready coroutine is run.
FairHub ==
    /\ SpecHub
    /\ \A r \in Readers : WF_vars(WaitCall(r)) /\ WF_vars(WaitResume(r))

SchedNext ==
    \/ GenStart
    \/ \E tv \in BOOLEAN, dbsig \in BOOLEAN, dt \in SleepSteps : Tick(tv, dbsig, dt)
    \/ \E t \in TaskIds : SessionPush(t)

\* The generation loop and the doorbell sessions it starts.
SpecSched == Init /\ [][SchedNext]_vars

\* Seconds from one reading of the wall clock to the next: the aligned sleep
\* ends 30 ms past the next whole second, and a wall clock that was set back
\* by less than that second in between is read in the same second again.
SecondSteps == {0, 1}

SecondNext ==
    \/ GenStart
    \/ \E tv \in BOOLEAN, dbsig \in BOOLEAN, dt \in SecondSteps : Tick(tv, dbsig, dt)

\* The generation loop reading the wall clock second by second, and twice in
\* one second.
SpecSecond == Init /\ [][SecondNext]_vars

\* Iterations of generation_loop in a run with clients.
MaxFirstTicks == 1

FirstNext ==
    \/ GenStart
    \/ \E tv \in BOOLEAN, dbsig \in BOOLEAN : nticks < MaxFirstTicks /\ Tick(tv, dbsig, 1)
    \/ \E r \in Readers : Connect(r)
    \/ \E r \in Readers : WaitCall(r)
    \/ \E r \in Readers : WaitResume(r)
    \/ \E r \in Readers : SendPart(r)

\* The generation loop, ticking once per second, and the /stream clients.
SpecFirst == Init /\ [][FirstNext]_vars

\* The same under the event loop's scheduling: the task lifespan creates is
\* run, and so is a client that is ready to run.
FairFirst ==
    /\ SpecFirst
    /\ WF_vars(GenStart)
    /\ \A r \in Readers : WF_vars(WaitCall(r)) /\ WF_vars(WaitResume(r))

DoorNext ==
    \/ GenStart
    \/ \E tv \in BOOLEAN, dbsig \in BOOLEAN : Tick(tv, dbsig, 1)
    \/ \E t \in TaskIds : SessionPush(t)
    \/ HookOn
    \/ HookOff

\* The generation loop, ticking once per second, together with the /api/ha
\* webhook.
SpecDoor == Init /\ [][DoorNext]_vars

DownNext ==
    \/ GenStart
    \/ \E tv \in BOOLEAN, dbsig \in BOOLEAN : Tick(tv, dbsig, 1)
    \/ \E t \in TaskIds : SessionPush(t)
    \/ Shutdown

\* The generation loop, ticking once per second, and the shutdown of the
\* application.
SpecDown == Init /\ [][DownNext]_vars

\* Sleeps of one second and of one second less than the interval.
IntervalSteps == {1, Interval - 1}

IntervalNext ==
    \/ GenStart
    \/ \E tv \in BOOLEAN, dbsig \in BOOLEAN, dt \in IntervalSteps : Tick(tv, dbsig, dt)

\* The generation loop with ticks that fall just before and on the end of the
\* regeneration interval.
SpecInterval == Init /\ [][IntervalNext]_vars

PipeInit ==
    /\ SchedInit
    /\ PipeOn
    /\ HaOff
    /\ EggOff
    /\ DlOff
    /\ current_frame = None
    /\ frame_count = 0
    /\ cond_locked = FALSE
    /\ pc = [r \in Readers |-> "off"]
    /\ last_count = [r \in Readers |-> -1]
    /\ ret = [r \in Readers |-> None]
    /\ part = [r \in Readers |-> None]
    /\ conn_count = [r \in Readers |-> 0]
    /\ n_pushes = 0
    /\ last_pushed = None

PipeNext ==
    \/ \E k \in 1..MaxChunk : ReadChunk(k)
    \/ ReadEof

\* _pipe_reader on a stream cut into chunks in every way.
SpecPipe == PipeInit /\ [][PipeNext]_vars

HaInit ==
    /\ SchedInit
    /\ PipeOff
    /\ DlOff
    /\ EggOff
    /\ ha_conf \in HaConfs
    /\ ha_check = "none"
    /\ ha_fetch = [kind |-> "ok", doc |-> Some([kind |-> "null", state |-> None])]
    /\ ha_ret = [value |-> FALSE, raised |-> FALSE]
    /\ current_frame = None
    /\ frame_count = 0
    /\ cond_locked = FALSE
    /\ pc = [r \in Readers |-> "off"]
    /\ last_count = [r \in Readers |-> -1]
    /\ ret = [r \in Readers |-> None]
    /\ part = [r \in Readers |-> None]
    /\ conn_count = [r \in Readers |-> 0]
    /\ n_pushes = 0
    /\ last_pushed = None

HaNext ==
    \/ \E f \in Fetches : CheckTv(f)
    \/ \E f \in Fetches : CheckDoorbell(f)

\* The two checks the generation loop makes, on every configuration and
\* every answer of Home Assistant.
SpecHa == HaInit /\ [][HaNext]_vars

EggInit ==
    /\ SchedInit
    /\ PipeOff
    /\ DlOff
    /\ HaOff
    /\ ha_cache = [value |-> None, ts |-> 0]
    /\ eg_now = 0
    /\ eg_calls = 0
    /\ eg_dir \in Dirs
    /\ eg_manifest \in Manifests
    /\ eg_ret = NoEgg
    /\ current_frame = None
    /\ frame_count = 0
    /\ cond_locked = FALSE
    /\ pc = [r \in Readers |-> "off"]
    /\ last_count = [r \in Readers |-> -1]
    /\ ret = [r \in Readers |-> None]
    /\ part = [r \in Readers |-> None]
    /\ conn_count = [r \in Readers |-> 0]
    /\ n_pushes = 0
    /\ last_pushed = None

\* Home Assistant does not answer, or answers with a document.
EggFetches == {f \in Fetches : f.kind = "timeout"}
              \cup {f \in Fetches : f.kind = "ok" /\ f.doc[1].kind = "list"}
              \cup {f \in Fetches : f.kind = "ok" /\ f.doc[1].state \in {Some("on"), Some("off")}}

EggNext ==
    \E f \in EggFetches, openable \in BOOLEAN, dt \in {1, HA_CACHE_TTL_SECONDS} :
        GetRandomEgg(f, openable, dt)

\* At most MaxEggCalls calls of get_random_egg on every directory and
\* manifest of at most MaxEggs images, with Home Assistant answering or not.
SpecEgg == EggInit /\ [][EggNext]_vars

LoopInit ==
    /\ SchedInit
    /\ PipeOff
    /\ HaOff
    /\ EggOff
    /\ DlOff
    /\ current_frame = None
    /\ frame_count = 0
    /\ cond_locked = FALSE
    /\ pc = [r \in Readers |-> "off"]
    /\ last_count = [r \in Readers |-> -1]
    /\ ret = [r \in Readers |-> None]
    /\ part = [r \in Readers |-> None]
    /\ conn_count = [r \in Readers |-> 0]
    /\ n_pushes = 0
    /\ last_pushed = None

LoopNext ==
    \/ StartSession
    \/ \E ok \in BOOLEAN : LoopTop(ok)
    \/ ReaderBegin
    \/ \E k \in 0..MaxRunFrames : ReaderRead(k)
    \/ \E how \in {"eof", "exited"} : ProcCloses(how)
    \/ ReaderEof
    \/ ReaderFail
    \/ LoopReaderDone
    \/ LoopReaped
    \/ CompWake
    \/ \E decodable \in BOOLEAN : CompPush(decodable)
    \/ CompFail
    \/ \E by \in {"sched", "hook"} : StopCall(by)
    \/ StopWaitOver
    \/ StopTimeout

\* One doorbell session: doorbell_loop, its decoder and stages, and the calls
\* of _stop_doorbell on it.
SpecLoop == LoopInit /\ [][LoopNext]_vars

\* The same under the event loop's scheduling: a coroutine that can run is
\* run, a timer that is due fires, a killed process is reaped.  Nothing is
\* assumed of the decoder: it may deliver nothing and never exit.
FairLoop ==
    /\ SpecLoop
    /\ WF_vars(\E ok \in BOOLEAN : LoopTop(ok))
    /\ WF_vars(ReaderBegin) /\ WF_vars(ReaderEof)
    /\ WF_vars(LoopReaderDone) /\ WF_vars(LoopReaped)
    /\ WF_vars(CompWake) /\ WF_vars(\E decodable \in BOOLEAN : CompPush(decodable))
    /\ WF_vars(StopWaitOver) /\ WF_vars(StopTimeout)

OwnerNext ==
    \/ GenStart
    \/ StartSession
    \/ \E ok \in BOOLEAN : LoopTop(ok)
    \/ ReaderBegin
    \/ \E k \in 0..MaxRunFrames : ReaderRead(k)
    \/ \E how \in {"eof", "exited"} : ProcCloses(how)
    \/ ReaderEof
    \/ ReaderFail
    \/ LoopReaderDone
    \/ LoopReaped
    \/ CompWake
    \/ \E decodable \in BOOLEAN : CompPush(decodable)
    \/ CompFail
    \/ gpc = "loop" /\ StopCall("sched")
    \/ StopCall("hook")
    \/ StopWaitOver
    \/ StopTimeout
    \/ RegenAfterStop
    \/ \E at \in {"poll", "generate"} : CancelInTick(at)
    \/ Shutdown
    \/ \E old \in BOOLEAN : CancelInStop(old)

\* One doorbell session together with the generation loop that stops it:
\* the regeneration that follows the stop, and the cancellation of the
\* generation loop by lifespan at any of its suspension points.
SpecOwner == LoopInit /\ [][OwnerNext]_vars

WaitNext ==
    \/ \E b \in HubFrames : PushFrame(b)
    \/ \E r \in Readers : WaitCall(r)
    \/ \E r \in Readers : WaitResume(r)
    \/ \E r \in Readers : SendPart(r)

\* wait_for_frame as a function of its argument.
SpecWait == WaitInit /\ [][WaitNext]_vars

\* ------------------------------------------------------------------ claims

Returned(r) == ret[r] # None
Ret(r) == ret[r][1]
Returns(r) == pc[r] # "yielded" /\ pc'[r] = "yielded"

\* C1: a reader that passes each returned count to its next wait_for_frame
\* call (the first call with -1) is handed strictly increasing counts: every
\* returned count is greater than the count the call was given, and the
\* generator keeps that count for its next call.
C1_CountsStrictlyIncrease ==
    \A r \in Readers :
        Returned(r) => /\ Ret(r).count > Ret(r).arg
                       /\ last_count[r] = Ret(r).count

\* A reader was handed count 2 on its first call, having skipped count 1, or
\* on its second call, after count 1.
C1_Witness ==
    /\ \E r \in Readers : Returned(r) /\ Ret(r).arg = -1 /\ Ret(r).count = 2
                            /\ conn_count[r] = 0
    /\ \E r \in Readers : Returned(r) /\ Ret(r).arg = 1 /\ Ret(r).count = 2

\* C2: wait_for_frame(S) never returns a count less than or equal to S, for
\* every integer S, also S larger than the number of pushes made so far.
C2_NeverAtMostArg ==
    \A r \in Readers : Returned(r) => Ret(r).count > Ret(r).arg

\* C3: push_frame never waits on a reader: whatever the readers are doing
\* (none connected, suspended in wait_for_frame, woken, or never calling
\* again), the condition's lock is free and the push can run to its end.
C3_PushNeverBlocks ==
    /\ ~cond_locked
    /\ n_pushes < MaxPush => \A b \in HubFrames : ENABLED PushFrame(b)

\* Every reader is suspended in wait_for_frame after a first frame.
C3_Witness ==
    /\ n_pushes = 1
    /\ \A r \in Readers : pc[r] = "waiting"

\* C4: one push_frame wakes every reader suspended in wait_for_frame, and
\* each woken reader, once run, returns a frame without a further push.
C4_OnePushWakesAll ==
    /\ [][n_pushes' # n_pushes =>
            \A r \in Readers : pc[r] = "waiting" => pc'[r] = "woken"]_vars
    /\ [][\A r \in Readers :
            pc[r] = "woken" /\ pc'[r] # "woken" =>
                pc'[r] = "yielded" /\ n_pushes' = n_pushes]_vars
    /\ \A r \in Readers : (pc[r] = "woken") ~> (pc[r] = "yielded")

\* Several readers have been woken by the same push.
C4_Witness == \A r \in Readers : pc[r] = "woken"

\* C5: wait_for_frame(-1) is suspended only while no frame has ever been
\* pushed, nothing is returned before the first push, and once a frame has
\* been pushed the call is never left suspended waiting for another one.
C5_FirstCall ==
    \A r \in Readers :
        /\ n_pushes = 0 => ~Returned(r) /\ pc[r] \in {"off", "idle", "waiting"}
        /\ (last_count[r] = -1 /\ pc[r] = "waiting") => n_pushes = 0

\* A client that connected after a push got that frame from its first call.
C5_Witness ==
    \E r \in Readers :
        /\ Returned(r) /\ Ret(r).arg = -1
        /\ conn_count[r] = 1 /\ Ret(r).count = 1 /\ n_pushes = 1

\* C6: wait_for_frame returns the bytes of the most recent push_frame at the
\* moment it returns, with the number of pushes made so far: each push
\* raises the count by exactly one and the bytes belong to the count.
C6_LatestFrameAndCount ==
    /\ [](frame_count = n_pushes /\ current_frame = last_pushed)
    /\ [][\A r \in Readers :
            Returns(r) => /\ ret'[r] # None
                          /\ ret'[r][1].bytes = last_pushed[1]
                          /\ ret'[r][1].count = n_pushes]_vars

\* A reader that was slow got the second frame directly, not the first.
C6_Witness ==
    \E r \in Readers :
        /\ Returned(r) /\ pc[r] = "yielded"
        /\ Ret(r).count = 2 /\ Ret(r).arg = -1 /\ conn_count[r] = 0

\* C7 as claimed: a client is never sent a frame that was published before
\* it connected.
C7_NoFrameFromBeforeConnect ==
    \A r \in Readers : Returned(r) => Ret(r).count > conn_count[r]

\* C7 amended: only the first call of a client may return the frame that was
\* current when it connected; nothing older is ever sent, and every later
\* call returns a frame pushed after the connection.
C7_OnlyLatestIsBackfilled ==
    \A r \in Readers :
        Returned(r) => /\ Ret(r).count >= conn_count[r]
                       /\ Ret(r).count >= 1
                       /\ Ret(r).arg # -1 => Ret(r).count > conn_count[r]

\* A client that connected after the first frame was sent that frame.
C7_Witness ==
    \E r \in Readers : Returned(r) /\ conn_count[r] = 1 /\ Ret(r).count = 1

\* The bytes of "--frame\r\nContent-Type: image/jpeg\r\nContent-Length: ".
PartPrefix ==
    <<45, 45, 102, 114, 97, 109, 101, 13, 10,
      67, 111, 110, 116, 101, 110, 116, 45, 84, 121, 112, 101, 58, 32,
      105, 109, 97, 103, 101, 47, 106, 112, 101, 103, 13, 10,
      67, 111, 110, 116, 101, 110, 116, 45, 76, 101, 110, 103, 116, 104, 58, 32>>

\* The number a sequence of ASCII decimal digits denotes.
RECURSIVE DigitsValue(_)
DigitsValue(d) ==
    IF d = <<>> THEN 0
    ELSE 10 * DigitsValue(SubSeq(d, 1, Len(d) - 1)) + (d[Len(d)] - 48)

\* p is the prefix, the decimal length of jpeg, a blank line, jpeg, CRLF.
WellFormedPart(p, jpeg) ==
    LET n == Len(jpeg)
        h == Len(PartPrefix)
        k == Len(p) - h - n - 6
        digits == SubSeq(p, h + 1, h + k)
    IN  /\ k >= 1
        /\ SubSeq(p, 1, h) = PartPrefix
        /\ \A i \in 1..k : digits[i] \in 48..57
        /\ k > 1 => digits[1] # 48
        /\ DigitsValue(digits) = n
        /\ SubSeq(p, h + k + 1, h + k + 4) = <<13, 10, 13, 10>>
        /\ SubSeq(p, h + k + 5, h + k + 4 + n) = jpeg
        /\ SubSeq(p, h + k + 5 + n, Len(p)) = <<13, 10>>

\* C8: one chunk is yielded per frame wait_for_frame returns, and it is the
\* boundary line, the Content-Type line, Content-Length: n, a blank line,
\* the n bytes of that frame and CRLF, for every frame length.
C8_PartFormat ==
    \A r \in Readers :
        /\ Returned(r) <=> part[r] # None
        /\ Returned(r) => WellFormedPart(part[r][1], Ret(r).bytes)

\* Chunks were yielded for the empty frame and for a frame of 12 bytes.
C8_Witness ==
    /\ \E r \in Readers : Returned(r) /\ Len(Ret(r).bytes) = 0
    /\ \E r \in Readers : Returned(r) /\ Len(Ret(r).bytes) = 12

\* C9: at most one IngestSession (a running doorbell_loop task) exists in
\* every reachable state, whatever the order of scheduler ticks that see the
\* camera signal and of doorbell_on / doorbell_off webhook calls.
C9_AtMostOneSession == Cardinality(Sessions) <= 1

\* The _generate_frame call of the latest iteration.
Gen == gen[1]

\* The override image was published: it is the frame the call pushed and the
\* current frame of the buffer, and no other source was called.
OverridePublished ==
    /\ Gen.winner = "override"
    /\ ~Gen.raised
    /\ Gen.frame = Some(ImageToJpeg(OverrideImg(Gen.override[1])))
    /\ current_frame = Gen.frame
    /\ Gen.invoked = {"override"}

\* C10 as claimed: in a full regeneration with an override image set, the
\* published frame is the override image and no lower-priority source is
\* invoked, for every denominator and sauna status.
C10_OverrideSetWins ==
    (gen # None /\ Gen.override # None) => OverridePublished

\* C10 amended: the same for an override that is set and whose image file can
\* be opened and encoded; an unreadable override falls through the chain.
C10_LoadableOverrideWins ==
    (gen # None /\ Gen.override # None /\ Gen.ov_ok) => OverridePublished

\* A full regeneration with the override set, the egg odds at "always" and the
\* sauna on published the override image.
C10_Witness ==
    /\ gen # None
    /\ Gen.override # None /\ Gen.ov_ok
    /\ Gen.denom = 1 /\ Gen.sauna_on
    /\ OverridePublished

C12_BaseOnlyWhileTimeformWins ==
    live_meta \in {"override", "easteregg", "sauna"} => tf_base = None

\* A step that is one iteration of generation_loop, and what it read.
TickStep == nticks' = nticks + 1
ReadsTvActive == ~was_idle'
ReadsCamera == prev_db_active'
ConditionsUnchanged ==
    prev_override' = prev_override /\ prev_sauna_on' = prev_sauna_on

\* The iteration pushed exactly one frame, recomposited from the cached base
\* with the time of the tick, and called neither _generate_frame nor
\* generate_base.
CheapTick ==
    /\ branch' = "tick"
    /\ gen' = None
    /\ n_pushes' = n_pushes + 1
    /\ \E d \in Dryers :
          last_pushed' = Some(ImageToJpeg(ComposeFrame(tf_base[1], clock, d)))
    /\ current_frame' = last_pushed'
    /\ UNCHANGED <<tf_base, last_gen_time, live_meta>>

FullChain ==
    /\ branch' = "regen"
    /\ gen' # None
    /\ LET g == gen'[1]
       IN  /\ g.invoked # {}
           /\ (g.winner \notin {"override", "easteregg", "sauna"} /\ ~g.raised)
                 => "timeform" \in g.invoked
           /\ g.winner = "timeform" => tf_base' = Some(clock)

\* C14: the first tick that reads the display as active after a tick that read
\* it as inactive, with the camera inactive, runs the full priority chain,
\* also when less than the interval has passed since the last generation.
C14_WakeForcesFullChain ==
    [][(TickStep /\ was_idle /\ ReadsTvActive /\ ~ReadsCamera) => FullChain]_vars

\* The display woke up less than the interval after the last generation and
\* the timeform was regenerated.
C14_Witness ==
    /\ gen # None /\ branch = "regen"
    /\ Gen.wake /\ Gen.early /\ Gen.winner = "timeform"
    /\ ~was_idle /\ ~prev_db_active

\* C15: a tick that reads the camera signal as off after a tick that read it
\* as on, with the session running, stops the session (its stop event is set
\* and its task has ended when _stop_doorbell returns) and runs the full
\* priority chain in that same tick whatever the interval, so that no
\* recomposite comes before it; a frame the chain gives is the next frame
\* pushed.
C15_CameraOffStopsAndRegenerates ==
    [][(/\ TickStep /\ ReadsTvActive /\ ~ReadsCamera
        /\ prev_db_active /\ db_task # 0 /\ tasks[db_task].state = "running")
       => /\ tasks'[db_task].state = "done"
          /\ tasks'[db_stop].stop
          /\ db_task' = 0 /\ db_stop' = 0
          /\ Sessions' = Sessions \ {db_task}
          /\ FullChain
          /\ gen'[1].after_camera
          /\ (gen'[1].frame # None /\ ~gen'[1].raised) =>
                /\ n_pushes' = n_pushes + 1
                /\ last_pushed' = gen'[1].frame
          /\ (gen'[1].frame = None \/ gen'[1].raised) => n_pushes' = n_pushes]_vars

\* The camera went off less than the interval after the last generation: the
\* session has ended and the chain has published a frame.
C15_Witness ==
    /\ gen # None /\ branch = "regen"
    /\ Gen.after_camera /\ Gen.early /\ Gen.winner = "timeform"
    /\ current_frame = Gen.frame
    /\ Sessions = {}
    /\ \E t \in TaskIds : tasks[t].state = "done" /\ tasks[t].stop

\* C16: a tick that reads the camera signal as active invokes no content
\* source, pushes no frame and leaves _tf_base unchanged; in the tick of the
\* off -> on transition exactly one doorbell_loop task is started, and the
\* rest of the tick (state change detection, generation) is skipped; in a
\* later tick with the signal still on no task is started or stopped.
C16_CameraTickDoesNothingElse ==
    [][(TickStep /\ ReadsCamera) =>
          /\ branch' = "camera"
          /\ gen' = None
          /\ UNCHANGED <<tf_base, n_pushes, frame_count, current_frame, last_pushed>>
          /\ UNCHANGED <<prev_override, prev_sauna_on, last_second, live_meta>>
          /\ IF ~prev_db_active
             THEN /\ Cardinality(Sessions' \ Sessions) = 1
                  /\ Sessions \subseteq Sessions'
                  /\ db_task' \in Sessions' \ Sessions
                  /\ db_stop' = db_task'
                  /\ ~tasks'[db_task'].stop
             ELSE /\ tasks' = tasks
                  /\ UNCHANGED <<db_task, db_stop>>]_vars

\* The camera signal has been on for two ticks in a row after a timeform
\* frame: one session runs and the cached base is still there.
C16_Witness ==
    /\ branch = "camera" /\ prev_db_active
    /\ nticks = 3 /\ tf_base # None
    /\ Cardinality(Sessions) = 1 /\ db_task \in Sessions
    /\ Cardinality({t \in TaskIds : tasks[t].state # "unborn"}) = 1

\* After a source that gave no image the chain went on with the next source
\* in the fixed order: the failure of a source, also by an exception, did not
\* keep the sources below it from being tried.
ChainContinues(g) ==
    /\ g.raised => "timeform" \in g.invoked
    /\ ("override" \in g.failed /\ g.denom = 1) => "egg" \in g.invoked
    /\ ({"override", "egg"} \cap g.failed # {} /\ g.sauna_on
            /\ g.winner # "easteregg") => "sauna" \in g.invoked
    /\ g.failed # {} /\ g.winner \notin {"easteregg", "sauna"}
            => "timeform" \in g.invoked
    /\ g.winner = "none" => "timeform" \in g.invoked

\* C17: in a full regeneration the failure of a content source makes the chain
\* continue with the next source instead of aborting the tick, and when every
\* source fails no frame is pushed: the buffer's frame and count are as before.
C17_FailureFallsThrough ==
    [][(TickStep /\ gen' # None) =>
          /\ ChainContinues(gen'[1])
          /\ gen'[1].winner = "none" => UNCHANGED <<current_frame, frame_count>>]_vars

\* C18: an exception raised inside one tick of generation_loop does not end
\* the loop: it is caught at the tick boundary, the sleep of the tick still
\* runs, and the loop stands ready to run its next tick (within the number
\* of ticks of a run), whatever the signals then read.
C18_LoopSurvivesExceptions ==
    /\ [](gpc # "dead")
    /\ [][(TickStep /\ gen' # None /\ gen'[1].raised) =>
              gpc' = "loop" /\ clock' >= clock + 1]_vars
    /\ []((gen # None /\ Gen.raised /\ nticks < MaxTicks) =>
              /\ ENABLED Tick(FALSE, FALSE, 1)
              /\ ENABLED Tick(TRUE, FALSE, 1))

\* _generate_frame raised in the first tick, the second tick ran all the same
\* and raised again, and the loop is still running.
C18_Witness ==
    /\ gen # None /\ Gen.raised /\ nticks = 2 /\ last_gen_time = 0
    /\ ~Gen.wake /\ ~Gen.after_camera
    /\ gpc = "loop"

\* C19: for every way of cutting the stream of two back-to-back JPEGs into
\* chunks, also between the two bytes of a marker, _pipe_reader extracts
\* exactly the two frames, each from its FFD8 to its FFD9, in stream order,
\* and received ends at 2.
C19_TwoFramesWhateverTheChunks ==
    p_stream = Jpeg1 \o Jpeg2 =>
        /\ p_frames \in {<<>>, <<Jpeg1>>, <<Jpeg1, Jpeg2>>}
        /\ p_received = Len(p_frames)
        /\ p_in = <<>> => p_frames = <<Jpeg1, Jpeg2>> /\ p_received = 2

\* C20: bytes without a start marker before the first FFD8, in any chunking,
\* are discarded and the first frame extracted is the first complete JPEG of
\* the stream; after each chunk the retained buffer is empty or begins with
\* FFD8.
C20_LeadingGarbageDiscarded ==
    (p_pc # "off" /\ Len(p_stream) > Len(Jpeg1 \o Jpeg2)) =>
        /\ p_frames # <<>> => p_frames[1] = Jpeg1
        /\ p_in = <<>> => p_frames # <<>>
        /\ p_buf = <<>> \/ (Len(p_buf) >= 2 /\ SubSeq(p_buf, 1, 2) = SOI)

\* C28: while an override image stays set and readable, the display stays
\* active and the camera stays inactive, every frame a tick pushes is the
\* override image: in a tick that follows the publication of the override
\* (live_meta is "override"), reads the same override path, the display as
\* active and the camera as inactive, as the tick before it did, a pushed
\* frame is the override image.
C28_OnlyOverrideWhileSet ==
    [][(/\ TickStep /\ ReadsTvActive /\ ~ReadsCamera
        /\ ~was_idle /\ ~prev_db_active
        /\ live_meta = "override"
        /\ prev_override # None /\ prev_override' = prev_override
        /\ gen' # None => gen'[1].ov_ok
        /\ n_pushes' # n_pushes)
       => last_pushed' = Some(ImageToJpeg(OverrideImg(prev_override[1])))]_vars

\* C29: after a full regeneration whose published frame was produced by the
\* override, the easter egg or the sauna source, _tf_base is None at the end
\* of that call.
C29_SpecialWinnerClearsBase ==
    (gen # None /\ ~Gen.raised /\ Gen.winner \in {"override", "easteregg", "sauna"})
        => /\ tf_base = None
           /\ current_frame = Gen.frame

\* An easter egg was published by a regeneration that came after one that
\* had cached a timeform base.
C29_Witness ==
    /\ gen # None /\ ~Gen.raised /\ Gen.winner = "easteregg"
    /\ nticks >= 2 /\ last_gen_time > Interval
    /\ Gen.override = None /\ ~Gen.sauna_on /\ ~Gen.wake /\ ~Gen.after_camera
    /\ tf_base = None

\* C30: in the tick where the display goes from active to idle, _tf_base is
\* set to None.
C30_IdleClearsBase ==
    [][(TickStep /\ ~was_idle /\ was_idle') => tf_base' = None]_vars

\* The request of the latest check failed: it raised, timed out, was answered
\* with an error status or with a body that could not be decoded, or could
\* not be made at all.
FetchFailed ==
    \/ ha_fetch.kind \in FetchErrors
    \/ ~ha_conf.base_url \/ ~ha_conf.token \/ ~ha_conf.client

\* C27: when the Home Assistant state fetch fails or times out,
\* is_tv_active returns True and is_doorbell_active returns False, and no
\* exception from either check reaches the scheduler tick.
C27_FetchFailureDefaults ==
    (ha_check # "none" /\ FetchFailed) =>
        /\ ~ha_ret.raised
        /\ ha_check = "tv" => ha_ret.value = TRUE
        /\ ha_check = "doorbell" => ha_ret.value = FALSE

\* A configured check whose request timed out has answered with its default.
C27_Witness ==
    /\ ha_conf = [base_url |-> TRUE, token |-> TRUE, client |-> TRUE]
    /\ ha_fetch.kind = "timeout"
    /\ \/ ha_check = "tv" /\ ha_ret = [value |-> TRUE, raised |-> FALSE]
       \/ ha_check = "doorbell" /\ ha_ret = [value |-> FALSE, raised |-> FALSE]

\* Frame f was extracted before frame g: by an earlier decoder, or earlier by
\* the same one.
FrameBefore(f, g) == f[1] < g[1] \/ (f[1] = g[1] /\ f[2] < g[2])

\* C21: the compositor pushes at most one composed frame per raw frame
\* written to the shared cell: in an interval where the cell has not been
\* overwritten since the compositor last took a frame from it nothing is
\* composed, every push is of a frame extracted after the frame pushed before
\* it (so no frame is pushed twice), and the pushes of a decoder run and of
\* the session never exceed the frames received.
C21_AtMostOnePushPerRawFrame ==
    /\ [](/\ pushed <= received
          /\ sess_pushed <= sess_received)
    /\ [][(sess_pushed' # sess_pushed /\ cam # None) =>
             /\ sess_pushed' = sess_pushed + 1
             /\ FrameBefore(cam[1].frame, cam'[1].frame)]_vars
    /\ [][(compose_task = "ready" /\ latest = last_raw /\ runs' = runs)
             => (compose_task' # "composing" /\ n_pushes' = n_pushes)]_vars

\* Two frames arrived in one interval: the compositor pushed the later one,
\* found the cell unchanged afterwards, and sleeps.
C21_Witness ==
    /\ received = 2 /\ pushed = 1
    /\ latest # None /\ last_raw = latest
    /\ compose_task = "ready" /\ reader_task = "reading" /\ ~stop_set
    /\ sess_pushed = 1 /\ cam # None /\ cam[1].frame = latest[1]

\* A stage of an earlier decoder run is not running.
StageOver(t) == t \in {"none", "done", "failed", "cancelled"}

\* C23: after a decoder restart inside one session, every frame the
\* compositor pushes was extracted from the output of the decoder running at
\* the time of the push: the restart starts from an empty cell with both
\* stages of the run before ended, and no raw frame received before the
\* restart is composed and pushed after it.
C23_NoStaleFrameAfterRestart ==
    /\ [](cam # None => cam[1].frame[1] = cam[1].at)
    /\ [][(runs' = runs + 1 /\ process' = "alive")
             => /\ StageOver(reader_task) /\ StageOver(compose_task)
                /\ latest' = None /\ last_raw' = None /\ received' = 0
                /\ n_pushes' = n_pushes]_vars

\* Publishing has resumed after a restart: a frame of the first decoder and
\* then, as first push of the second decoder's compositor, a frame of the
\* second one were pushed.
C23_Witness ==
    /\ runs = 2 /\ sess_pushed = 2 /\ pushed = 1
    /\ cam # None /\ cam[1].frame[1] = 2
    /\ current_frame = Some(Compose(cam[1].frame, TRUE))
    /\ ~stop_set

\* doorbell_loop has ended.
LoopOver == dl_pc \in {"done", "cancelled"}

\* C22: while stop has not been signalled, every end of a decoder run (output
\* closed, process exit, spawn failure, stream error) is followed by the kill
\* of a process that has not exited, the cancellation of both stages, the
\* backoff sleep and a new spawn, as often as runs end; doorbell_loop ends
\* only when stop has been signalled, and once it is signalled no new decoder
\* is spawned and doorbell_loop terminates.
C22_RestartUntilStopped ==
    /\ [](dl_pc = "backoff" =>
            /\ process \notin {"alive", "eof"}
            /\ StageOver(reader_task) /\ StageOver(compose_task))
    /\ [](LoopOver => stop_set)
    /\ []((dl_pc = "backoff" /\ ~stop_set /\ runs < MaxRuns) =>
            ENABLED LoopTop(TRUE))
    /\ [][(dl_pc = "await_reader" /\ dl_pc' # "await_reader" /\ ~stop_set)
             => /\ reader_task \in {"done", "failed"}
                /\ dl_pc' \in {"killing", "backoff"}
                /\ process' \notin {"alive", "eof"}]_vars
    /\ [][(dl_pc = "killing" /\ dl_pc' # "killing" /\ ~stop_set)
             => dl_pc' = "backoff"]_vars
    /\ [][(dl_pc = "backoff" /\ dl_pc' # "backoff")
             => (runs' = runs + 1 \/ (stop_set /\ LoopOver'))]_vars
    /\ [][runs' # runs =>
             /\ runs' = runs + 1 /\ ~stop_set
             /\ dl_pc \in {"start", "backoff"}]_vars
    /\ [][stop_set => stop_set' /\ runs' = runs]_vars
    /\ (dl_pc = "await_reader" /\ reader_task \in {"done", "failed"})
          ~> (dl_pc = "backoff" \/ LoopOver)
    /\ \A r \in 0..(MaxRuns - 1) :
          (dl_pc = "backoff" /\ runs = r) ~> (runs = r + 1 \/ LoopOver)
    /\ stop_set ~> LoopOver

\* A second decoder runs after the first one ended, and no stop was signalled.
C22_Witness ==
    /\ runs = 2 /\ process = "alive" /\ dl_pc = "await_reader"
    /\ reader_task = "reading" /\ compose_task = "ready"
    /\ ~stop_set /\ stop_calls = 0 /\ sess_received >= 1

\* C25: _stop_doorbell always returns after a bounded wait: it sets the stop
\* event, waits for doorbell_loop in one wait_for of 5 s, and at the timeout
\* the task is cancelled, which kills a decoder that has not exited; a call
\* that is waiting can always time out, whatever the decoder does (also when
\* it neither exits nor delivers anything, the reader suspended in read), so
\* every call returns; and when it returns doorbell_loop has ended and the
\* decoder process is not left running.
C25_StopIsBounded ==
    /\ [](timeouts <= 1)
    /\ [](stopper # "idle" => stop_set)
    /\ [](LoopOver => process \notin {"alive", "eof"})
    /\ []((stopper = "waiting" /\ ~LoopOver) => ENABLED StopTimeout)
    /\ [][timeouts' = timeouts + 1 =>
             /\ dl_pc' \in {"cancelled", "killing", "done"}
             /\ process' \notin {"alive", "eof"}
             /\ reader_task' # "reading"]_vars
    /\ [][(stopper # "idle" /\ stopper' = "idle") =>
             /\ LoopOver' /\ stop_set'
             /\ process' \notin {"alive", "eof"}]_vars
    /\ (stopper # "idle") ~> (stopper = "idle")

\* A stop has returned on a decoder that delivered nothing and did not exit:
\* the wait timed out, the task was cancelled with its reader in read, and
\* the process was killed.
C25_Witness ==
    /\ stopper = "idle" /\ stop_calls = 1 /\ timeouts = 1
    /\ dl_pc = "cancelled" /\ reader_task = "cancelled"
    /\ process = "killed" /\ sess_received = 0 /\ runs = 1

\* The session is already stopped: the task is absent or done and the stop
\* event is absent or set.
AlreadyStopped ==
    /\ ~has_task \/ LoopOver
    /\ ~has_event \/ stop_set

\* webhooks.is_doorbell_active(): a task that is not done is held.
SessionActive == has_task /\ ~LoopOver

\* C24: a call of _stop_doorbell (the scheduler's or the webhook's) on a
\* session that is already stopped returns at once without waiting, changes
\* nothing of the session, its decoder and stages, and pushes no frame; a
\* call that has returned leaves the session stopped, so a second stop finds
\* it so and leaves what the first one left.
C24_StopIsIdempotent ==
    /\ []((stopper = "idle" /\ stop_calls >= 1) => AlreadyStopped)
    /\ [][(stop_calls' = stop_calls + 1 /\ AlreadyStopped) =>
             /\ stopper' = "idle"
             /\ UNCHANGED <<dl_pc, cancelling, stop_set, process, reader_task,
                            compose_task, latest, received, last_raw, raw, pushed,
                            runs, out, cam, sess_pushed, sess_received>>
             /\ UNCHANGED hubVars
             /\ has_task' => has_task
             /\ has_event' => has_event
             /\ SessionActive' = SessionActive
             /\ AlreadyStopped']_vars

\* A session that had pushed a frame was stopped twice with the same task and
\* event: the second call found the task done and the event set.
C24_Witness ==
    /\ stop_calls = 2 /\ stopper = "idle"
    /\ has_task /\ has_event /\ LoopOver /\ stop_set
    /\ sess_pushed >= 1 /\ process = "killed"

\* C31: a doorbell session owned by the generation loop runs only while the
\* display is active: a tick that reads the display as idle ends with no
\* session of the loop (one that was running has its stop event set and its
\* task ended, and db_task and db_stop are None) and starts none, whatever
\* the doorbell signal is, and so it stays for as long as the display is idle.
C31_SessionOnlyWhileActive ==
    /\ [](was_idle => (db_task = 0 /\ db_stop = 0 /\ ~prev_db_active))
    /\ [](db_task # 0 => (tasks[db_task].state = "running" /\ prev_db_active))
    /\ [][(TickStep /\ ~ReadsTvActive) =>
             /\ Sessions' \subseteq Sessions
             /\ \A t \in TaskIds : tasks[t].state = "unborn" => tasks'[t] = tasks[t]
             /\ db_task' = 0 /\ db_stop' = 0
             /\ db_task # 0 => /\ tasks'[db_task].state = "done"
                               /\ tasks'[db_task].stop
                               /\ db_task \notin Sessions']_vars

\* The display went idle in the second tick, with the session of the first
\* tick running: the session is stopped and none has been started since.
C31_Witness ==
    /\ was_idle /\ nticks >= 2
    /\ tasks[1].state = "done" /\ tasks[1].stop
    /\ tasks[2].state = "unborn"
    /\ Sessions = {} /\ db_task = 0

\* C32: a tick with the display active and the camera inactive that reads an
\* override path or a sauna on/off state other than the one the previous
\* state change detection saw runs the full priority chain in that same tick,
\* with the values it has just read, also when less than the interval has
\* passed since the last generation.
C32_ChangeForcesFullChain ==
    [][(TickStep /\ ReadsTvActive /\ ~ReadsCamera /\ ~ConditionsUnchanged) =>
          /\ FullChain
          /\ gen'[1].override = prev_override'
          /\ gen'[1].sauna_on = prev_sauna_on'
          /\ gen'[1].override # None => "override" \in gen'[1].invoked]_vars

\* The sauna went on between two ticks one second apart, with the display
\* active and no camera: the second tick ran the chain before the interval
\* was over, and published the sauna image.
C32_Witness ==
    /\ gen # None /\ branch = "regen" /\ nticks >= 2
    /\ Gen.early /\ ~Gen.wake /\ ~Gen.after_camera
    /\ Gen.sauna_on /\ Gen.override = None /\ Gen.winner = "sauna"
    /\ current_frame = Some(ImageToJpeg(SaunaImg))

\* C33: with the display active and the camera inactive, a tick at which at
\* least the interval (UPDATE_INTERVAL_MINUTES x 60 s) has passed since the
\* previous run of the priority chain runs the full chain: no other branch of
\* the tick is taken in its place.
C33_IntervalRunsChain ==
    [][(/\ TickStep /\ ReadsTvActive /\ ~ReadsCamera
        /\ last_chain # None
        /\ clock - last_chain[1] >= Interval) => FullChain]_vars

\* C34: cancelling the generation_loop task ends it at whichever suspension
\* point the cancellation arrives (a poll, the generation of content, the
\* sleep, or the wait of _stop_doorbell): once gen_task.cancel() has been
\* called the loop is cancelled and does not go on.
C34_CancelEndsLoop ==
    cancel_at # "none" => gpc = "cancelled"

\* C35: once a call of _stop_doorbell has returned for a session, neither
\* stage of the session pushes another frame, so that a frame the forced
\* regeneration after the stop has published stays the current frame.
C35_NoPushAfterStop ==
    /\ [][(stopper = "idle" /\ stop_calls >= 1) => sess_pushed' = sess_pushed]_vars
    /\ []((branch = "regen" /\ gen # None /\ ~Gen.raised /\ Gen.frame # None)
            => current_frame = Gen.frame)

\* C36: the step of _pipe_reader (read a chunk, take out the complete frames,
\* overwrite the cell, count them) can be taken whenever the reader is in read
\* and the decoder has output, in every state of the composer, also with a
\* compose call or a push in flight and with a frame in the cell that the
\* composer has not taken; the step leaves the composer as it is.
C36_ReaderNeverWaitsForComposer ==
    /\ []((reader_task = "reading" /\ process = "alive" /\ out < MaxRunFrames)
            => ENABLED ReaderRead(1))
    /\ [][sess_received' # sess_received =>
             /\ reader_task = "reading"
             /\ latest' = Some(<<runs, out'>>)
             /\ received' - received = out' - out
             /\ sess_received' - sess_received = out' - out
             /\ out' > out
             /\ UNCHANGED <<compose_task, last_raw, raw, pushed, n_pushes,
                            current_frame>>]_vars

\* With the compose call of the first frame in flight the reader has
\* overwritten the cell with the second frame.
C36_Witness ==
    /\ compose_task = "composing" /\ raw = Some(<<1, 1>>)
    /\ latest = Some(<<1, 2>>) /\ received = 2 /\ pushed = 0
    /\ reader_task = "reading"

\* C37: a compose call that fails for one raw frame does not end the
\* composer: while the session runs (doorbell_loop awaits the reader, the
\* decoder is alive, stop is not signalled) the composer is sleeping or
\* composing, so that a frame received after the failure is composed and
\* pushed.
C37_ComposerSurvivesFailure ==
    (dl_pc = "await_reader" /\ process = "alive" /\ ~stop_set)
        => compose_task \in {"ready", "composing"}

\* The manifest marks the image explicit, or disabled.
MarkedExplicit(name) ==
    /\ eg_manifest.kind = "ok"
    /\ \E i \in DOMAIN eg_manifest.images :
        /\ eg_manifest.images[i].name = name
        /\ eg_manifest.images[i].meta.dict
        /\ eg_manifest.images[i].meta.explicit = Some(TRUE)

MarkedDisabled(name) ==
    /\ eg_manifest.kind = "ok"
    /\ \E i \in DOMAIN eg_manifest.images :
        /\ eg_manifest.images[i].name = name
        /\ eg_manifest.images[i].meta.dict
        /\ eg_manifest.images[i].meta.enabled = Some(FALSE)

\* C38: get_random_egg never returns an image the manifest marks explicit
\* while ha_explicit_allowed is false, and never an image the manifest marks
\* as disabled.
C38_OnlyAllowedEggs ==
    eg_ret.selected # None =>
        /\ (eg_ret.allow = Some(FALSE)) => ~MarkedExplicit(eg_ret.selected[1])
        /\ ~MarkedDisabled(eg_ret.selected[1])

\* The same on a manifest in which every priority is a number or absent.
C38_AllowedOnNumericPriorities ==
    (\A i \in DOMAIN eg_manifest.images :
        eg_manifest.images[i].meta.priority.kind # "bad")
        => C38_OnlyAllowedEggs

C40_PlaceholderFirst ==
    /\ [][(nticks' = nticks + 1) => (current_frame # None /\ n_pushes >= 1)]_vars
    /\ [](gpc = "loop" => current_frame # None)
    /\ [](n_pushes >= 1 => current_frame # None)
    /\ [][\A r \in Readers :
            (pc[r] = "idle" /\ last_count[r] = -1 /\ gpc # "start" /\ pc'[r] # "idle")
                => (pc'[r] = "yielded" /\ ret'[r] # None)]_vars
    /\ \A r \in Readers : (pc[r] = "idle" /\ last_count[r] = -1) ~> (pc[r] = "yielded")

\* A client got the placeholder from its first call while no generation had
\* pushed anything: the only full chain so far has failed.
C40_Witness ==
    /\ \E r \in Readers :
        /\ pc[r] = "yielded"
        /\ ret[r] = Some([bytes |-> ImageToJpeg(BlackImg), count |-> 1, arg |-> -1])
    /\ n_pushes = 1
    /\ nticks >= 1
    /\ gen # None
    /\ Gen.frame = None

\* C26: after application shutdown (the generation task cancelled and awaited
\* by lifespan) no IngestSession is left: every doorbell_loop task that was
\* running at shutdown has ended, and with it its decoder subprocess.
C26_NoSessionAfterShutdown ==
    gpc = "cancelled" => Sessions = {}

====
